---- MODULE Spec2Model ----
(***************************************************************************)
(* Verification model of the provider adapters of pipecat:                 *)
(*   - AWSPollyTTSService   (src/src/pipecat/services/aws/tts.py)          *)
(*   - NvidiaTTSService     (src/src/pipecat/services/nvidia/tts.py)       *)
(*   - MyLLMService         (src/src/pipecat/services/my_service/llm.py)   *)
(*   - the conversation driver and its history compaction                  *)
(*                          (src/src/pipecat/services/my_service/llm_test.py) *)
(* Strings built by the code are modelled as sequences of string tokens    *)
(* whose concatenation, in order, is the Python string.                    *)
(***************************************************************************)
EXTENDS Integers, Sequences, FiniteSets, TLC

VARIABLES
  aws_settings,   \* AWSPollyTTSService._settings
  aws_voice_id,   \* AWSPollyTTSService._voice_id
  aws_pc,         \* position of the run_tts generator
  aws_text,       \* argument of the current run_tts call
  aws_outcome,    \* what the Polly call of the current run did
  aws_request,    \* filtered_params passed to synthesize_speech
  aws_audio,      \* audio_data after resampling
  aws_chunk_size, \* self.chunk_size read into CHUNK_SIZE
  aws_i,          \* loop variable i of the chunking loop
  aws_frames,     \* frames yielded by the current run_tts call, in order
  aws_pending,    \* exception in flight while the finally block runs
  aws_raised,     \* exception that left run_tts, None if it ended normally
  lang_arg,       \* argument of the last language_to_service_language call
  lang_result,    \* value that call returned
  voices,         \* list a get_voices classmethod is building or has returned
  cat_pc,         \* which get_voices call is running or has returned
  nv_model_name,  \* NvidiaTTSService model name (set_model_name)
  nv_function_id, \* NvidiaTTSService._function_id
  nv_voice_id,    \* NvidiaTTSService._voice_id
  nv_service,     \* NvidiaTTSService._service
  nv_config,      \* NvidiaTTSService._config
  nv_pc,          \* position of the run_tts generator
  nv_stream,      \* what the provider does with the request of the current run
  nv_k,           \* number of provider responses the current run has consumed
  nv_frames,      \* frames yielded by the current run_tts call, in order
  nv_raised,      \* exception that left the last call, None if it ended normally
  nv_ctor,        \* arguments NvidiaTTSService.__init__ was called with
  nv_set_model_arg, \* argument of the last set_model call, None if never called
  nv_clients_created, \* number of SpeechSynthesisService objects created so far
  nv_requested,   \* the current run has called synthesize_online
  nv_starts,      \* number of start() calls made so far, counted up to MaxStarts
  llm_messages,   \* the list object the caller passed to MyLLMService.generate
  llm_arg,        \* contents of that list when generate was called
  llm_pc,         \* position of the generate coroutine
  llm_requests,   \* chat-completion requests generate has issued, in order
  llm_responses,  \* chat completions generate has received, in order
  llm_result,     \* LLMResponse generate returned
  llm_raised,     \* exception that left generate
  conversation,   \* the conversation list of the driver
  conv_pc,        \* position of the driver inside a turn
  conv_turns,     \* number of the current turn, counted up to FirstCheckedTurn
  conv_input,     \* argument of the last check_conversation_length call
  conv_summary,   \* summary the provider returned to that call
  conv_sent,      \* old_text that call passed to summarise_text
  conv_result,    \* value that call returned
  conv_raised     \* exception that ended main or left that call

awsVars == <<aws_settings, aws_voice_id, aws_pc, aws_text, aws_outcome, aws_request,
             aws_audio, aws_chunk_size, aws_i, aws_frames, aws_pending, aws_raised>>
langVars == <<lang_arg, lang_result>>
catVars == <<voices, cat_pc>>
nvVars == <<nv_model_name, nv_function_id, nv_voice_id, nv_service, nv_config, nv_pc,
            nv_stream, nv_k, nv_frames, nv_raised, nv_ctor,
            nv_set_model_arg, nv_clients_created, nv_requested, nv_starts>>
llmVars == <<llm_messages, llm_arg, llm_pc, llm_requests, llm_responses, llm_result,
            llm_raised>>
convVars == <<conversation, conv_pc, conv_turns, conv_input, conv_summary, conv_sent,
              conv_result, conv_raised>>
vars == <<awsVars, langVars, catVars, nvVars, llmVars, convVars>>

(***************************************************************************)
(* Bounds of the model.                                                    *)
(***************************************************************************)
MaxAudioLen == 5
MaxChunkSize == 3
MaxResponses == 3
MaxStarts == 2
MaxConversationLen == 11
MaxSystem == 4

\* Python's None, distinct from every string the model uses.
None == "__None__"

\* str(v) as used by f-strings
Str(v) == IF v = None THEN "None" ELSE v

\* Python truthiness of an Optional[str]
Truthy(v) == v # None /\ v # ""

\* None where a list of strings is expected
NoneList == <<None>>

\* None where a byte string is expected (bytes are never negative)
NoneAudio == <<-1>>

Min(a, b) == IF a < b THEN a ELSE b

\* byte strings of length 0..n; the bytes of a buffer are pairwise distinct,
\* so that a lost, repeated or misplaced byte shows
BuffersUpTo(n) == {[i \in 1..k |-> i - 1] : k \in 0..n}

(***************************************************************************)
(* Frames (pipecat.frames.frames).  Every frame carries the same fields so *)
(* that frames of different types can be compared.                         *)
(***************************************************************************)
TTSStartedFrame == [type |-> "TTSStartedFrame", audio |-> <<>>, error |-> <<>>]

TTSStoppedFrame == [type |-> "TTSStoppedFrame", audio |-> <<>>, error |-> <<>>]

TTSAudioRawFrame(audio) == [type |-> "TTSAudioRawFrame", audio |-> audio, error |-> <<>>]

ErrorFrame(error) == [type |-> "ErrorFrame", audio |-> <<>>, error |-> error]

(***************************************************************************)
(* language_to_aws_language                                                *)
(***************************************************************************)
\* Members of the Language enum: the keys of LANGUAGE_MAP and some members
\* that have no entry in it.
MappedLanguages ==
  {"AR", "AR_AE", "CA", "ZH", "YUE", "YUE_CN", "CS", "DA", "NL", "NL_BE",
   "EN", "EN_AU", "EN_GB", "EN_IN", "EN_NZ", "EN_US", "EN_ZA", "FI",
   "FR", "FR_BE", "FR_CA", "DE", "DE_AT", "DE_CH", "HI", "IS", "IT", "JA", "KO",
   "NO", "NB", "NB_NO", "PL", "PT", "PT_BR", "PT_PT", "RO", "RU",
   "ES", "ES_MX", "ES_US", "SV", "TR", "CY", "CY_GB"}

UnmappedLanguages == {"AF", "EN_CA", "ZH_TW", "TA"}

Language == MappedLanguages \cup UnmappedLanguages

LANGUAGE_MAP ==
  [l \in MappedLanguages |->
    CASE l = "AR" -> "arb"
      [] l = "AR_AE" -> "ar-AE"
      [] l = "CA" -> "ca-ES"
      [] l = "ZH" -> "cmn-CN"
      [] l = "YUE" -> "yue-CN"
      [] l = "YUE_CN" -> "yue-CN"
      [] l = "CS" -> "cs-CZ"
      [] l = "DA" -> "da-DK"
      [] l = "NL" -> "nl-NL"
      [] l = "NL_BE" -> "nl-BE"
      [] l = "EN" -> "en-US"
      [] l = "EN_AU" -> "en-AU"
      [] l = "EN_GB" -> "en-GB"
      [] l = "EN_IN" -> "en-IN"
      [] l = "EN_NZ" -> "en-NZ"
      [] l = "EN_US" -> "en-US"
      [] l = "EN_ZA" -> "en-ZA"
      [] l = "FI" -> "fi-FI"
      [] l = "FR" -> "fr-FR"
      [] l = "FR_BE" -> "fr-BE"
      [] l = "FR_CA" -> "fr-CA"
      [] l = "DE" -> "de-DE"
      [] l = "DE_AT" -> "de-AT"
      [] l = "DE_CH" -> "de-CH"
      [] l = "HI" -> "hi-IN"
      [] l = "IS" -> "is-IS"
      [] l = "IT" -> "it-IT"
      [] l = "JA" -> "ja-JP"
      [] l = "KO" -> "ko-KR"
      [] l = "NO" -> "nb-NO"
      [] l = "NB" -> "nb-NO"
      [] l = "NB_NO" -> "nb-NO"
      [] l = "PL" -> "pl-PL"
      [] l = "PT" -> "pt-PT"
      [] l = "PT_BR" -> "pt-BR"
      [] l = "PT_PT" -> "pt-PT"
      [] l = "RO" -> "ro-RO"
      [] l = "RU" -> "ru-RU"
      [] l = "ES" -> "es-ES"
      [] l = "ES_MX" -> "es-MX"
      [] l = "ES_US" -> "es-US"
      [] l = "SV" -> "sv-SE"
      [] l = "TR" -> "tr-TR"
      [] l = "CY" -> "cy-GB"
      [] l = "CY_GB" -> "cy-GB"]

\* str(language.value) of the members that have no entry in LANGUAGE_MAP,
\* and the part of it before the first "-"
LanguageCode ==
  [l \in UnmappedLanguages |->
     CASE l = "AF" -> "af"
       [] l = "EN_CA" -> "en-CA"
       [] l = "ZH_TW" -> "zh-TW"
       [] l = "TA" -> "ta"]

BaseCode ==
  [l \in UnmappedLanguages |->
     CASE l = "AF" -> "af"
       [] l = "EN_CA" -> "en"
       [] l = "ZH_TW" -> "zh"
       [] l = "TA" -> "ta"]

\* resolve_language is imported from pipecat.transcriptions.language and its
\* body is not part of these sources, so what the call gives back for a
\* language without an entry is not determined here: it is None (the
\* "None if not supported" of the docstring of language_to_aws_language) or
\* the language's own code, whole or reduced to its base as use_base_code
\* says.  For a language with an entry there is nothing to fall back from.
UnresolvedOutcomes(language, use_base_code) ==
  IF language \in UnmappedLanguages
  THEN {None, IF use_base_code THEN BaseCode[language] ELSE LanguageCode[language]}
  ELSE {None}

\* the call resolve_language(language, language_map, use_base_code=...);
\* unresolved is the outcome of the call for a language without an entry,
\* one of UnresolvedOutcomes(language, use_base_code)
resolve_language(language, language_map, use_base_code, unresolved) ==
  IF language \in DOMAIN language_map THEN language_map[language] ELSE unresolved

language_to_aws_language(language, unresolved) ==
  resolve_language(language, LANGUAGE_MAP, FALSE, unresolved)

language_to_service_language(language, unresolved) ==
  language_to_aws_language(language, unresolved)

(***************************************************************************)
(* Voice catalogs                                                          *)
(***************************************************************************)
\* a conversion that keeps the empty string
OrNone_keep(x) == x

\* `x or None` on a string
OrNone(x) == IF x = "" THEN None ELSE x

\* the dictionary both get_voices classmethods build for a raw entry v
VoiceEntry(v) ==
  [name |-> v.name,
   voice_id |-> v.voice_id,
   description |-> OrNone(v.description),
   gender |-> v.gender,
   language |-> v.language,
   sample_url |-> OrNone(v.preview_url),
   accent |-> OrNone(v.accent)]

AWSPollyRawVoices ==
  <<
    [voice_id |-> "Hala", name |-> "Hala", language |-> "Arabic", description |-> "", accent |-> "Gulf", gender |-> "Female", preview_url |-> ""],
    [voice_id |-> "Zayd", name |-> "Zayd", language |-> "Arabic", description |-> "", accent |-> "Gulf", gender |-> "Male", preview_url |-> ""],
    [voice_id |-> "Lisa", name |-> "Lisa", language |-> "Dutch", description |-> "", accent |-> "Belgian", gender |-> "Female", preview_url |-> ""],
    [voice_id |-> "Arlet", name |-> "Arlet", language |-> "Catalan", description |-> "", accent |-> "", gender |-> "Female", preview_url |-> ""],
    [voice_id |-> "Jitka", name |-> "Jitka", language |-> "Czech", description |-> "", accent |-> "", gender |-> "Female", preview_url |-> ""],
    [voice_id |-> "Hiujin", name |-> "Hiujin", language |-> "Chinese", description |-> "", accent |-> "Cantonese", gender |-> "Female", preview_url |-> ""],
    [voice_id |-> "Zhiyu", name |-> "Zhiyu", language |-> "Chinese", description |-> "", accent |-> "Mandarin", gender |-> "Female", preview_url |-> ""],
    [voice_id |-> "Sofie", name |-> "Sofie", language |-> "Danish", description |-> "", accent |-> "", gender |-> "Female", preview_url |-> ""],
    [voice_id |-> "Laura", name |-> "Laura", language |-> "Dutch", description |-> "", accent |-> "", gender |-> "Female", preview_url |-> ""],
    [voice_id |-> "Olivia", name |-> "Olivia", language |-> "English", description |-> "", accent |-> "Australian", gender |-> "Female", preview_url |-> ""],
    [voice_id |-> "Amy", name |-> "Amy", language |-> "English", description |-> "", accent |-> "British", gender |-> "Female", preview_url |-> ""],
    [voice_id |-> "Emma", name |-> "Emma", language |-> "English", description |-> "", accent |-> "British", gender |-> "Female", preview_url |-> ""],
    [voice_id |-> "Brian", name |-> "Brian", language |-> "English", description |-> "", accent |-> "British", gender |-> "Male", preview_url |-> ""],
    [voice_id |-> "Arthur", name |-> "Arthur", language |-> "English", description |-> "", accent |-> "British", gender |-> "Male", preview_url |-> ""],
    [voice_id |-> "Kajal", name |-> "Kajal", language |-> "English", description |-> "", accent |-> "Indian", gender |-> "Female", preview_url |-> ""],
    [voice_id |-> "Niamh", name |-> "Niamh", language |-> "English", description |-> "", accent |-> "Irish", gender |-> "Female", preview_url |-> ""],
    [voice_id |-> "Aria", name |-> "Aria", language |-> "English", description |-> "", accent |-> "New Zealand", gender |-> "Female", preview_url |-> ""],
    [voice_id |-> "Jasmine", name |-> "Jasmine", language |-> "English", description |-> "", accent |-> "Singaporean", gender |-> "Female", preview_url |-> ""],
    [voice_id |-> "Ayanda", name |-> "Ayanda", language |-> "English", description |-> "", accent |-> "South African", gender |-> "Female", preview_url |-> ""],
    [voice_id |-> "Danielle", name |-> "Danielle", language |-> "English", description |-> "", accent |-> "US", gender |-> "Female", preview_url |-> ""],
    [voice_id |-> "Gregory", name |-> "Gregory", language |-> "English", description |-> "", accent |-> "US", gender |-> "Male", preview_url |-> ""],
    [voice_id |-> "Ivy", name |-> "Ivy", language |-> "English", description |-> "", accent |-> "US", gender |-> "Female", preview_url |-> ""],
    [voice_id |-> "Joanna", name |-> "Joanna", language |-> "English", description |-> "", accent |-> "US", gender |-> "Female", preview_url |-> ""],
    [voice_id |-> "Kendra", name |-> "Kendra", language |-> "English", description |-> "", accent |-> "US", gender |-> "Female", preview_url |-> ""],
    [voice_id |-> "Kimberly", name |-> "Kimberly", language |-> "English", description |-> "", accent |-> "US", gender |-> "Female", preview_url |-> ""],
    [voice_id |-> "Salli", name |-> "Salli", language |-> "English", description |-> "", accent |-> "US", gender |-> "Female", preview_url |-> ""],
    [voice_id |-> "Joey", name |-> "Joey", language |-> "English", description |-> "", accent |-> "US", gender |-> "Male", preview_url |-> ""],
    [voice_id |-> "Justin", name |-> "Justin", language |-> "English", description |-> "", accent |-> "US", gender |-> "Male", preview_url |-> ""],
    [voice_id |-> "Kevin", name |-> "Kevin", language |-> "English", description |-> "", accent |-> "US", gender |-> "Male", preview_url |-> ""],
    [voice_id |-> "Matthew", name |-> "Matthew", language |-> "English", description |-> "", accent |-> "US", gender |-> "Male", preview_url |-> ""],
    [voice_id |-> "Ruth", name |-> "Ruth", language |-> "English", description |-> "", accent |-> "US", gender |-> "Female", preview_url |-> ""],
    [voice_id |-> "Stephen", name |-> "Stephen", language |-> "English", description |-> "", accent |-> "US", gender |-> "Male", preview_url |-> ""],
    [voice_id |-> "Suvi", name |-> "Suvi", language |-> "Finnish", description |-> "", accent |-> "", gender |-> "Female", preview_url |-> ""],
    [voice_id |-> "Celine", name |-> "Céline", language |-> "French", description |-> "", accent |-> "", gender |-> "Female", preview_url |-> ""],
    [voice_id |-> "Lea", name |-> "Léa", language |-> "French", description |-> "", accent |-> "", gender |-> "Female", preview_url |-> ""],
    [voice_id |-> "Remi", name |-> "Rémi", language |-> "French", description |-> "", accent |-> "", gender |-> "Male", preview_url |-> ""],
    [voice_id |-> "Isabelle", name |-> "Isabelle", language |-> "French", description |-> "", accent |-> "Belgian", gender |-> "Female", preview_url |-> ""],
    [voice_id |-> "Gabrielle", name |-> "Gabrielle", language |-> "French", description |-> "", accent |-> "Canadian", gender |-> "Female", preview_url |-> ""],
    [voice_id |-> "Liam", name |-> "Liam", language |-> "French", description |-> "", accent |-> "Canadian", gender |-> "Male", preview_url |-> ""],
    [voice_id |-> "Vicki", name |-> "Vicki", language |-> "German", description |-> "", accent |-> "", gender |-> "Female", preview_url |-> ""],
    [voice_id |-> "Daniel", name |-> "Daniel", language |-> "German", description |-> "", accent |-> "", gender |-> "Male", preview_url |-> ""],
    [voice_id |-> "Hannah", name |-> "Hannah", language |-> "German", description |-> "", accent |-> "Austrian", gender |-> "Female", preview_url |-> ""],
    [voice_id |-> "Sabrina", name |-> "Sabrina", language |-> "German", description |-> "", accent |-> "Swiss", gender |-> "Female", preview_url |-> ""],
    [voice_id |-> "Kajal", name |-> "Kajal", language |-> "Hindi", description |-> "", accent |-> "", gender |-> "Female", preview_url |-> ""],
    [voice_id |-> "Bianca", name |-> "Bianca", language |-> "Italian", description |-> "", accent |-> "", gender |-> "Female", preview_url |-> ""],
    [voice_id |-> "Adriano", name |-> "Adriano", language |-> "Italian", description |-> "", accent |-> "", gender |-> "Male", preview_url |-> ""],
    [voice_id |-> "Takumi", name |-> "Takumi", language |-> "Japanese", description |-> "", accent |-> "", gender |-> "Male", preview_url |-> ""],
    [voice_id |-> "Kazuha", name |-> "Kazuha", language |-> "Japanese", description |-> "", accent |-> "", gender |-> "Female", preview_url |-> ""],
    [voice_id |-> "Tomoko", name |-> "Tomoko", language |-> "Japanese", description |-> "", accent |-> "", gender |-> "Female", preview_url |-> ""],
    [voice_id |-> "Seoyeon", name |-> "Seoyeon", language |-> "Korean", description |-> "", accent |-> "", gender |-> "Female", preview_url |-> ""],
    [voice_id |-> "Jihye", name |-> "Jihye", language |-> "Korean", description |-> "", accent |-> "", gender |-> "Female", preview_url |-> ""],
    [voice_id |-> "Ida", name |-> "Ida", language |-> "Norwegian", description |-> "", accent |-> "", gender |-> "Female", preview_url |-> ""],
    [voice_id |-> "Ewa", name |-> "Ewa", language |-> "Polish", description |-> "", accent |-> "", gender |-> "Female", preview_url |-> ""],
    [voice_id |-> "Ola", name |-> "Ola", language |-> "Polish", description |-> "", accent |-> "", gender |-> "Female", preview_url |-> ""],
    [voice_id |-> "Camila", name |-> "Camila", language |-> "Portuguese", description |-> "", accent |-> "Brazilian", gender |-> "Female", preview_url |-> ""],
    [voice_id |-> "Vitoria", name |-> "Vitória", language |-> "Portuguese", description |-> "", accent |-> "Brazilian", gender |-> "Female", preview_url |-> ""],
    [voice_id |-> "Thiago", name |-> "Thiago", language |-> "Portuguese", description |-> "", accent |-> "Brazilian", gender |-> "Male", preview_url |-> ""],
    [voice_id |-> "Ines", name |-> "Inês", language |-> "Portuguese", description |-> "", accent |-> "European", gender |-> "Female", preview_url |-> ""],
    [voice_id |-> "Lucia", name |-> "Lucia", language |-> "Spanish", description |-> "", accent |-> "Spain", gender |-> "Female", preview_url |-> ""],
    [voice_id |-> "Sergio", name |-> "Sergio", language |-> "Spanish", description |-> "", accent |-> "Spain", gender |-> "Male", preview_url |-> ""],
    [voice_id |-> "Mia", name |-> "Mia", language |-> "Spanish", description |-> "", accent |-> "Mexican", gender |-> "Female", preview_url |-> ""],
    [voice_id |-> "Andres", name |-> "Andrés", language |-> "Spanish", description |-> "", accent |-> "Mexican", gender |-> "Male", preview_url |-> ""],
    [voice_id |-> "Lupe", name |-> "Lupe", language |-> "Spanish", description |-> "", accent |-> "US", gender |-> "Female", preview_url |-> ""],
    [voice_id |-> "Pedro", name |-> "Pedro", language |-> "Spanish", description |-> "", accent |-> "US", gender |-> "Male", preview_url |-> ""],
    [voice_id |-> "Elin", name |-> "Elin", language |-> "Swedish", description |-> "", accent |-> "", gender |-> "Female", preview_url |-> ""],
    [voice_id |-> "Burcu", name |-> "Burcu", language |-> "Turkish", description |-> "", accent |-> "", gender |-> "Female", preview_url |-> ""]
  >>

NvidiaRawVoices ==
  <<
    [voice_id |-> "Magpie-Multilingual.EN-US.Female.Neutral", name |-> "Magpie Multilingual EN-US Female Neutral", language |-> "en-US", description |-> "Multilingual TTS model - English US Female Neutral emotion", accent |-> "US", gender |-> "Female", preview_url |-> ""],
    [voice_id |-> "Magpie-Multilingual.EN-US.Female.Calm", name |-> "Magpie Multilingual EN-US Female Calm", language |-> "en-US", description |-> "Multilingual TTS model - English US Female Calm emotion", accent |-> "US", gender |-> "Female", preview_url |-> ""],
    [voice_id |-> "Magpie-Multilingual.EN-US.Female.Fearful", name |-> "Magpie Multilingual EN-US Female Fearful", language |-> "en-US", description |-> "Multilingual TTS model - English US Female Fearful emotion", accent |-> "US", gender |-> "Female", preview_url |-> ""],
    [voice_id |-> "Magpie-Multilingual.EN-US.Female.Happy", name |-> "Magpie Multilingual EN-US Female Happy", language |-> "en-US", description |-> "Multilingual TTS model - English US Female Happy emotion", accent |-> "US", gender |-> "Female", preview_url |-> ""],
    [voice_id |-> "Magpie-Multilingual.EN-US.Female.Angry", name |-> "Magpie Multilingual EN-US Female Angry", language |-> "en-US", description |-> "Multilingual TTS model - English US Female Angry emotion", accent |-> "US", gender |-> "Female", preview_url |-> ""],
    [voice_id |-> "Magpie-Multilingual.EN-US.Female.Female-1", name |-> "Magpie Multilingual EN-US Female 1", language |-> "en-US", description |-> "Multilingual TTS model - English US Female voice 1", accent |-> "US", gender |-> "Female", preview_url |-> "https://docs.nvidia.com/deeplearning/riva/user-guide/docs/_downloads/ad8bb6b5199a7579a34395e4f4a07ff0/EN-US.Female.Female-1_MagpieTTS.wav"],
    [voice_id |-> "Magpie-Multilingual.EN-US.Male.Calm", name |-> "Magpie Multilingual EN-US Male Calm", language |-> "en-US", description |-> "Multilingual TTS model - English US Male Calm emotion", accent |-> "US", gender |-> "Male", preview_url |-> ""],
    [voice_id |-> "Magpie-Multilingual.EN-US.Male.Fearful", name |-> "Magpie Multilingual EN-US Male Fearful", language |-> "en-US", description |-> "Multilingual TTS model - English US Male Fearful emotion", accent |-> "US", gender |-> "Male", preview_url |-> ""],
    [voice_id |-> "Magpie-Multilingual.EN-US.Male.Happy", name |-> "Magpie Multilingual EN-US Male Happy", language |-> "en-US", description |-> "Multilingual TTS model - English US Male Happy emotion", accent |-> "US", gender |-> "Male", preview_url |-> ""],
    [voice_id |-> "Magpie-Multilingual.EN-US.Male.Neutral", name |-> "Magpie Multilingual EN-US Male Neutral", language |-> "en-US", description |-> "Multilingual TTS model - English US Male Neutral emotion", accent |-> "US", gender |-> "Male", preview_url |-> ""],
    [voice_id |-> "Magpie-Multilingual.EN-US.Male.Angry", name |-> "Magpie Multilingual EN-US Male Angry", language |-> "en-US", description |-> "Multilingual TTS model - English US Male Angry emotion", accent |-> "US", gender |-> "Male", preview_url |-> ""],
    [voice_id |-> "Magpie-Multilingual.EN-US.Male.Disgusted", name |-> "Magpie Multilingual EN-US Male Disgusted", language |-> "en-US", description |-> "Multilingual TTS model - English US Male Disgusted emotion", accent |-> "US", gender |-> "Male", preview_url |-> ""],
    [voice_id |-> "Magpie-Multilingual.EN-US.Male.Male-1", name |-> "Magpie Multilingual EN-US Male 1", language |-> "en-US", description |-> "Multilingual TTS model - English US Male voice 1", accent |-> "US", gender |-> "Male", preview_url |-> "https://docs.nvidia.com/deeplearning/riva/user-guide/docs/_downloads/7776fdc8bfb84bb6c091fab0ca6bc38d/EN-US.Male.Male-1_MagpieTTS.wav"],
    [voice_id |-> "Magpie-Multilingual.FR-FR.Male.Male-1", name |-> "Magpie Multilingual FR-FR Male 1", language |-> "fr-FR", description |-> "Multilingual TTS model - French France Male voice 1", accent |-> "FR", gender |-> "Male", preview_url |-> "https://docs.nvidia.com/deeplearning/riva/user-guide/docs/_downloads/a6815f1502ff52c348487d07041f512d/FR-FR.Male.Male-1_MagpieTTS.wav"],
    [voice_id |-> "Magpie-Multilingual.FR-FR.Female.Female-1", name |-> "Magpie Multilingual FR-FR Female 1", language |-> "fr-FR", description |-> "Multilingual TTS model - French France Female voice 1", accent |-> "FR", gender |-> "Female", preview_url |-> "https://docs.nvidia.com/deeplearning/riva/user-guide/docs/_downloads/54aa7b237b4b50c1e6cf83407fb5fdb7/FR-FR.Female.Female-1_MagpieTTS.wav"],
    [voice_id |-> "Magpie-Multilingual.FR-FR.Female.Angry", name |-> "Magpie Multilingual FR-FR Female Angry", language |-> "fr-FR", description |-> "Multilingual TTS model - French France Female Angry emotion", accent |-> "FR", gender |-> "Female", preview_url |-> ""],
    [voice_id |-> "Magpie-Multilingual.FR-FR.Female.Calm", name |-> "Magpie Multilingual FR-FR Female Calm", language |-> "fr-FR", description |-> "Multilingual TTS model - French France Female Calm emotion", accent |-> "FR", gender |-> "Female", preview_url |-> ""],
    [voice_id |-> "Magpie-Multilingual.FR-FR.Female.Disgust", name |-> "Magpie Multilingual FR-FR Female Disgust", language |-> "fr-FR", description |-> "Multilingual TTS model - French France Female Disgust emotion", accent |-> "FR", gender |-> "Female", preview_url |-> ""],
    [voice_id |-> "Magpie-Multilingual.FR-FR.Female.Sad", name |-> "Magpie Multilingual FR-FR Female Sad", language |-> "fr-FR", description |-> "Multilingual TTS model - French France Female Sad emotion", accent |-> "FR", gender |-> "Female", preview_url |-> ""],
    [voice_id |-> "Magpie-Multilingual.FR-FR.Female.Happy", name |-> "Magpie Multilingual FR-FR Female Happy", language |-> "fr-FR", description |-> "Multilingual TTS model - French France Female Happy emotion", accent |-> "FR", gender |-> "Female", preview_url |-> ""],
    [voice_id |-> "Magpie-Multilingual.FR-FR.Female.Fearful", name |-> "Magpie Multilingual FR-FR Female Fearful", language |-> "fr-FR", description |-> "Multilingual TTS model - French France Female Fearful emotion", accent |-> "FR", gender |-> "Female", preview_url |-> ""],
    [voice_id |-> "Magpie-Multilingual.FR-FR.Female.Neutral", name |-> "Magpie Multilingual FR-FR Female Neutral", language |-> "fr-FR", description |-> "Multilingual TTS model - French France Female Neutral emotion", accent |-> "FR", gender |-> "Female", preview_url |-> ""],
    [voice_id |-> "Magpie-Multilingual.FR-FR.Male.Neutral", name |-> "Magpie Multilingual FR-FR Male Neutral", language |-> "fr-FR", description |-> "Multilingual TTS model - French France Male Neutral emotion", accent |-> "FR", gender |-> "Male", preview_url |-> ""],
    [voice_id |-> "Magpie-Multilingual.FR-FR.Male.Angry", name |-> "Magpie Multilingual FR-FR Male Angry", language |-> "fr-FR", description |-> "Multilingual TTS model - French France Male Angry emotion", accent |-> "FR", gender |-> "Male", preview_url |-> ""],
    [voice_id |-> "Magpie-Multilingual.FR-FR.Male.Calm", name |-> "Magpie Multilingual FR-FR Male Calm", language |-> "fr-FR", description |-> "Multilingual TTS model - French France Male Calm emotion", accent |-> "FR", gender |-> "Male", preview_url |-> ""],
    [voice_id |-> "Magpie-Multilingual.FR-FR.Male.Sad", name |-> "Magpie Multilingual FR-FR Male Sad", language |-> "fr-FR", description |-> "Multilingual TTS model - French France Male Sad emotion", accent |-> "FR", gender |-> "Male", preview_url |-> ""],
    [voice_id |-> "Magpie-Multilingual.ES-US.Male.Male-1", name |-> "Magpie Multilingual ES-US Male 1", language |-> "es-US", description |-> "Multilingual TTS model - Spanish US Male voice 1", accent |-> "US", gender |-> "Male", preview_url |-> "https://docs.nvidia.com/deeplearning/riva/user-guide/docs/_downloads/45c1034ce0262627f2ed865f02db079e/ES-US.Male.Male-1_MagpieTTS.wav"],
    [voice_id |-> "Magpie-Multilingual.ES-US.Female.Female-1", name |-> "Magpie Multilingual ES-US Female 1", language |-> "es-US", description |-> "Multilingual TTS model - Spanish US Female voice 1", accent |-> "US", gender |-> "Female", preview_url |-> "https://docs.nvidia.com/deeplearning/riva/user-guide/docs/_downloads/04f92cc1cb8517c9ea1a959a8cd6ab3f/ES-US.Female.Female-1_MagpieTTS.wav"],
    [voice_id |-> "Magpie-Multilingual.ES-US.Female.Neutral", name |-> "Magpie Multilingual ES-US Female Neutral", language |-> "es-US", description |-> "Multilingual TTS model - Spanish US Female Neutral emotion", accent |-> "US", gender |-> "Female", preview_url |-> ""],
    [voice_id |-> "Magpie-Multilingual.ES-US.Male.Neutral", name |-> "Magpie Multilingual ES-US Male Neutral", language |-> "es-US", description |-> "Multilingual TTS model - Spanish US Male Neutral emotion", accent |-> "US", gender |-> "Male", preview_url |-> ""],
    [voice_id |-> "Magpie-Multilingual.ES-US.Male.Angry", name |-> "Magpie Multilingual ES-US Male Angry", language |-> "es-US", description |-> "Multilingual TTS model - Spanish US Male Angry emotion", accent |-> "US", gender |-> "Male", preview_url |-> ""],
    [voice_id |-> "Magpie-Multilingual.ES-US.Female.Angry", name |-> "Magpie Multilingual ES-US Female Angry", language |-> "es-US", description |-> "Multilingual TTS model - Spanish US Female Angry emotion", accent |-> "US", gender |-> "Female", preview_url |-> ""],
    [voice_id |-> "Magpie-Multilingual.ES-US.Female.Happy", name |-> "Magpie Multilingual ES-US Female Happy", language |-> "es-US", description |-> "Multilingual TTS model - Spanish US Female Happy emotion", accent |-> "US", gender |-> "Female", preview_url |-> ""],
    [voice_id |-> "Magpie-Multilingual.ES-US.Male.Happy", name |-> "Magpie Multilingual ES-US Male Happy", language |-> "es-US", description |-> "Multilingual TTS model - Spanish US Male Happy emotion", accent |-> "US", gender |-> "Male", preview_url |-> ""],
    [voice_id |-> "Magpie-Multilingual.ES-US.Female.Calm", name |-> "Magpie Multilingual ES-US Female Calm", language |-> "es-US", description |-> "Multilingual TTS model - Spanish US Female Calm emotion", accent |-> "US", gender |-> "Female", preview_url |-> ""],
    [voice_id |-> "Magpie-Multilingual.ES-US.Male.Calm", name |-> "Magpie Multilingual ES-US Male Calm", language |-> "es-US", description |-> "Multilingual TTS model - Spanish US Male Calm emotion", accent |-> "US", gender |-> "Male", preview_url |-> ""],
    [voice_id |-> "Magpie-Multilingual.ES-US.Female.Pleasant_Surprise", name |-> "Magpie Multilingual ES-US Female Pleasant Surprise", language |-> "es-US", description |-> "Multilingual TTS model - Spanish US Female Pleasant Surprise emotion", accent |-> "US", gender |-> "Female", preview_url |-> ""],
    [voice_id |-> "Magpie-Multilingual.ES-US.Male.Pleasant_Surprise", name |-> "Magpie Multilingual ES-US Male Pleasant Surprise", language |-> "es-US", description |-> "Multilingual TTS model - Spanish US Male Pleasant Surprise emotion", accent |-> "US", gender |-> "Male", preview_url |-> ""],
    [voice_id |-> "Magpie-Multilingual.ES-US.Female.Sad", name |-> "Magpie Multilingual ES-US Female Sad", language |-> "es-US", description |-> "Multilingual TTS model - Spanish US Female Sad emotion", accent |-> "US", gender |-> "Female", preview_url |-> ""],
    [voice_id |-> "Magpie-Multilingual.ES-US.Male.Sad", name |-> "Magpie Multilingual ES-US Male Sad", language |-> "es-US", description |-> "Multilingual TTS model - Spanish US Male Sad emotion", accent |-> "US", gender |-> "Male", preview_url |-> ""],
    [voice_id |-> "Magpie-Multilingual.ES-US.Male.Disgust", name |-> "Magpie Multilingual ES-US Male Disgust", language |-> "es-US", description |-> "Multilingual TTS model - Spanish US Male Disgust emotion", accent |-> "US", gender |-> "Male", preview_url |-> ""],
    [voice_id |-> "English-US.Female-1", name |-> "English US Female 1", language |-> "en-US", description |-> "FastPitch model - English US Female voice 1", accent |-> "US", gender |-> "Female", preview_url |-> "https://docs.nvidia.com/deeplearning/riva/user-guide/docs/_downloads/11ea8df05a1db82a1bc858d169cd0ff5/Female1.wav"],
    [voice_id |-> "English-US.Male-1", name |-> "English US Male 1", language |-> "en-US", description |-> "FastPitch model - English US Male voice 1", accent |-> "US", gender |-> "Male", preview_url |-> "https://docs.nvidia.com/deeplearning/riva/user-guide/docs/_downloads/dcd2538b961a0c4a0d9ec4ced1936030/Male1.wav"],
    [voice_id |-> "English-US.Female-Calm", name |-> "English US Female Calm", language |-> "en-US", description |-> "FastPitch model - English US Female Calm emotion", accent |-> "US", gender |-> "Female", preview_url |-> "https://docs.nvidia.com/deeplearning/riva/user-guide/docs/_downloads/0372495b794c463964bae5d26876c117/Female_Calm.wav"],
    [voice_id |-> "English-US.Female-Neutral", name |-> "English US Female Neutral", language |-> "en-US", description |-> "FastPitch model - English US Female Neutral emotion", accent |-> "US", gender |-> "Female", preview_url |-> "https://docs.nvidia.com/deeplearning/riva/user-guide/docs/_downloads/1a55a0af0d7017cb7cced0c2033a7829/Female_Neutral.wav"],
    [voice_id |-> "English-US.Female-Happy", name |-> "English US Female Happy", language |-> "en-US", description |-> "FastPitch model - English US Female Happy emotion", accent |-> "US", gender |-> "Female", preview_url |-> "https://docs.nvidia.com/deeplearning/riva/user-guide/docs/_downloads/96c95b4b83d732c7215ece5032a81909/Female_Happy.wav"],
    [voice_id |-> "English-US.Female-Angry", name |-> "English US Female Angry", language |-> "en-US", description |-> "FastPitch model - English US Female Angry emotion", accent |-> "US", gender |-> "Female", preview_url |-> "https://docs.nvidia.com/deeplearning/riva/user-guide/docs/_downloads/c70e42129891b79ca925b754a45a602c/Female_Angry.wav"],
    [voice_id |-> "English-US.Female-Fearful", name |-> "English US Female Fearful", language |-> "en-US", description |-> "FastPitch model - English US Female Fearful emotion", accent |-> "US", gender |-> "Female", preview_url |-> "https://docs.nvidia.com/deeplearning/riva/user-guide/docs/_downloads/f02d799b21fb8feec1423a166c8eea1b/Female_Fearful.wav"],
    [voice_id |-> "English-US.Female-Sad", name |-> "English US Female Sad", language |-> "en-US", description |-> "FastPitch model - English US Female Sad emotion", accent |-> "US", gender |-> "Female", preview_url |-> "https://docs.nvidia.com/deeplearning/riva/user-guide/docs/_downloads/108a7e60f4462125222e4e50d83616f3/Female_Sad.wav"],
    [voice_id |-> "English-US.Male-Calm", name |-> "English US Male Calm", language |-> "en-US", description |-> "FastPitch model - English US Male Calm emotion", accent |-> "US", gender |-> "Male", preview_url |-> "https://docs.nvidia.com/deeplearning/riva/user-guide/docs/_downloads/9eb29ec1e7a923a52dd0ad6d0f63778a/Male_Calm.wav"],
    [voice_id |-> "English-US.Male-Neutral", name |-> "English US Male Neutral", language |-> "en-US", description |-> "FastPitch model - English US Male Neutral emotion", accent |-> "US", gender |-> "Male", preview_url |-> "https://docs.nvidia.com/deeplearning/riva/user-guide/docs/_downloads/daa5dda58c98485bee550cc182a62613/Male_Neutral.wav"],
    [voice_id |-> "English-US.Male-Happy", name |-> "English US Male Happy", language |-> "en-US", description |-> "FastPitch model - English US Male Happy emotion", accent |-> "US", gender |-> "Male", preview_url |-> "https://docs.nvidia.com/deeplearning/riva/user-guide/docs/_downloads/aa934d33a11eb1531aa2612c08a63453/Male_Happy.wav"],
    [voice_id |-> "English-US.Male-Angry", name |-> "English US Male Angry", language |-> "en-US", description |-> "FastPitch model - English US Male Angry emotion", accent |-> "US", gender |-> "Male", preview_url |-> "https://docs.nvidia.com/deeplearning/riva/user-guide/docs/_downloads/62ba38f5c611a75c4e63818ce8284b4b/Male_Angry.wav"],
    [voice_id |-> "English-US-RadTTS.Female-1", name |-> "English US RadTTS Female 1", language |-> "en-US", description |-> "RadTTS model - English US Female voice 1", accent |-> "US", gender |-> "Female", preview_url |-> "https://docs.nvidia.com/deeplearning/riva/user-guide/docs/_downloads/f6be975c5ba8bf2d1b77fb320c56e43b/Female1_RadTTS.wav"],
    [voice_id |-> "English-US-RadTTS.Male-1", name |-> "English US RadTTS Male 1", language |-> "en-US", description |-> "RadTTS model - English US Male voice 1", accent |-> "US", gender |-> "Male", preview_url |-> "https://docs.nvidia.com/deeplearning/riva/user-guide/docs/_downloads/1f9a0e259c11d076063c2699b1b0430b/Male1_RadTTS.wav"],
    [voice_id |-> "English-US-RadTTS.Female-Calm", name |-> "English US RadTTS Female Calm", language |-> "en-US", description |-> "RadTTS model - English US Female Calm emotion", accent |-> "US", gender |-> "Female", preview_url |-> ""],
    [voice_id |-> "English-US-RadTTS.Female-Neutral", name |-> "English US RadTTS Female Neutral", language |-> "en-US", description |-> "RadTTS model - English US Female Neutral emotion", accent |-> "US", gender |-> "Female", preview_url |-> ""],
    [voice_id |-> "English-US-RadTTS.Female-Happy", name |-> "English US RadTTS Female Happy", language |-> "en-US", description |-> "RadTTS model - English US Female Happy emotion", accent |-> "US", gender |-> "Female", preview_url |-> ""],
    [voice_id |-> "English-US-RadTTS.Female-Angry", name |-> "English US RadTTS Female Angry", language |-> "en-US", description |-> "RadTTS model - English US Female Angry emotion", accent |-> "US", gender |-> "Female", preview_url |-> ""],
    [voice_id |-> "English-US-RadTTS.Female-Fearful", name |-> "English US RadTTS Female Fearful", language |-> "en-US", description |-> "RadTTS model - English US Female Fearful emotion", accent |-> "US", gender |-> "Female", preview_url |-> ""],
    [voice_id |-> "English-US-RadTTS.Female-Sad", name |-> "English US RadTTS Female Sad", language |-> "en-US", description |-> "RadTTS model - English US Female Sad emotion", accent |-> "US", gender |-> "Female", preview_url |-> ""],
    [voice_id |-> "English-US-RadTTS.Male-Calm", name |-> "English US RadTTS Male Calm", language |-> "en-US", description |-> "RadTTS model - English US Male Calm emotion", accent |-> "US", gender |-> "Male", preview_url |-> ""],
    [voice_id |-> "English-US-RadTTS.Male-Neutral", name |-> "English US RadTTS Male Neutral", language |-> "en-US", description |-> "RadTTS model - English US Male Neutral emotion", accent |-> "US", gender |-> "Male", preview_url |-> ""],
    [voice_id |-> "English-US-RadTTS.Male-Happy", name |-> "English US RadTTS Male Happy", language |-> "en-US", description |-> "RadTTS model - English US Male Happy emotion", accent |-> "US", gender |-> "Male", preview_url |-> ""],
    [voice_id |-> "English-US-RadTTS.Male-Angry", name |-> "English US RadTTS Male Angry", language |-> "en-US", description |-> "RadTTS model - English US Male Angry emotion", accent |-> "US", gender |-> "Male", preview_url |-> ""],
    [voice_id |-> "ljspeech", name |-> "LJSpeech", language |-> "en-US", description |-> "FastPitch model trained on LJSpeech dataset", accent |-> "US", gender |-> "", preview_url |-> ""],
    [voice_id |-> "Mandarin-CN.Female-1", name |-> "Mandarin CN Female 1", language |-> "zh-CN", description |-> "FastPitch model - Mandarin Chinese Female voice 1", accent |-> "CN", gender |-> "Female", preview_url |-> ""],
    [voice_id |-> "Mandarin-CN.Male-1", name |-> "Mandarin CN Male 1", language |-> "zh-CN", description |-> "FastPitch model - Mandarin Chinese Male voice 1", accent |-> "CN", gender |-> "Male", preview_url |-> ""],
    [voice_id |-> "Mandarin-CN.Female-Calm", name |-> "Mandarin CN Female Calm", language |-> "zh-CN", description |-> "FastPitch model - Mandarin Chinese Female Calm emotion", accent |-> "CN", gender |-> "Female", preview_url |-> ""],
    [voice_id |-> "Mandarin-CN.Female-Neutral", name |-> "Mandarin CN Female Neutral", language |-> "zh-CN", description |-> "FastPitch model - Mandarin Chinese Female Neutral emotion", accent |-> "CN", gender |-> "Female", preview_url |-> ""],
    [voice_id |-> "Mandarin-CN.Male-Happy", name |-> "Mandarin CN Male Happy", language |-> "zh-CN", description |-> "FastPitch model - Mandarin Chinese Male Happy emotion", accent |-> "CN", gender |-> "Male", preview_url |-> ""],
    [voice_id |-> "Mandarin-CN.Male-Fearful", name |-> "Mandarin CN Male Fearful", language |-> "zh-CN", description |-> "FastPitch model - Mandarin Chinese Male Fearful emotion", accent |-> "CN", gender |-> "Male", preview_url |-> ""],
    [voice_id |-> "Mandarin-CN.Male-Sad", name |-> "Mandarin CN Male Sad", language |-> "zh-CN", description |-> "FastPitch model - Mandarin Chinese Male Sad emotion", accent |-> "CN", gender |-> "Male", preview_url |-> ""],
    [voice_id |-> "Mandarin-CN.Male-Calm", name |-> "Mandarin CN Male Calm", language |-> "zh-CN", description |-> "FastPitch model - Mandarin Chinese Male Calm emotion", accent |-> "CN", gender |-> "Male", preview_url |-> ""],
    [voice_id |-> "Mandarin-CN.Male-Neutral", name |-> "Mandarin CN Male Neutral", language |-> "zh-CN", description |-> "FastPitch model - Mandarin Chinese Male Neutral emotion", accent |-> "CN", gender |-> "Male", preview_url |-> ""],
    [voice_id |-> "Mandarin-CN.Male-Angry", name |-> "Mandarin CN Male Angry", language |-> "zh-CN", description |-> "FastPitch model - Mandarin Chinese Male Angry emotion", accent |-> "CN", gender |-> "Male", preview_url |-> ""],
    [voice_id |-> "Spanish-ES-Female-1", name |-> "Spanish ES Female 1", language |-> "es-ES", description |-> "FastPitch model - Spanish Spain Female voice 1", accent |-> "ES", gender |-> "Female", preview_url |-> ""],
    [voice_id |-> "Spanish-ES-Male-1", name |-> "Spanish ES Male 1", language |-> "es-ES", description |-> "FastPitch model - Spanish Spain Male voice 1", accent |-> "ES", gender |-> "Male", preview_url |-> ""],
    [voice_id |-> "Spanish-US.Female-1", name |-> "Spanish US Female 1", language |-> "es-US", description |-> "FastPitch model - Spanish US Female voice 1", accent |-> "US", gender |-> "Female", preview_url |-> ""],
    [voice_id |-> "Spanish-US.Male-1", name |-> "Spanish US Male 1", language |-> "es-US", description |-> "FastPitch model - Spanish US Male voice 1", accent |-> "US", gender |-> "Male", preview_url |-> ""],
    [voice_id |-> "Spanish-US.Female-Calm", name |-> "Spanish US Female Calm", language |-> "es-US", description |-> "FastPitch model - Spanish US Female Calm emotion", accent |-> "US", gender |-> "Female", preview_url |-> ""],
    [voice_id |-> "Spanish-US.Male-Calm", name |-> "Spanish US Male Calm", language |-> "es-US", description |-> "FastPitch model - Spanish US Male Calm emotion", accent |-> "US", gender |-> "Male", preview_url |-> ""],
    [voice_id |-> "Spanish-US.Female-Angry", name |-> "Spanish US Female Angry", language |-> "es-US", description |-> "FastPitch model - Spanish US Female Angry emotion", accent |-> "US", gender |-> "Female", preview_url |-> ""],
    [voice_id |-> "Spanish-US.Male-Angry", name |-> "Spanish US Male Angry", language |-> "es-US", description |-> "FastPitch model - Spanish US Male Angry emotion", accent |-> "US", gender |-> "Male", preview_url |-> ""],
    [voice_id |-> "Spanish-US.Female-Neutral", name |-> "Spanish US Female Neutral", language |-> "es-US", description |-> "FastPitch model - Spanish US Female Neutral emotion", accent |-> "US", gender |-> "Female", preview_url |-> ""],
    [voice_id |-> "Spanish-US.Male-Neutral", name |-> "Spanish US Male Neutral", language |-> "es-US", description |-> "FastPitch model - Spanish US Male Neutral emotion", accent |-> "US", gender |-> "Male", preview_url |-> ""],
    [voice_id |-> "Spanish-US.Female-Sad", name |-> "Spanish US Female Sad", language |-> "es-US", description |-> "FastPitch model - Spanish US Female Sad emotion", accent |-> "US", gender |-> "Female", preview_url |-> ""],
    [voice_id |-> "Spanish-US.Male-Happy", name |-> "Spanish US Male Happy", language |-> "es-US", description |-> "FastPitch model - Spanish US Male Happy emotion", accent |-> "US", gender |-> "Male", preview_url |-> ""],
    [voice_id |-> "Spanish-US.Male-Fearful", name |-> "Spanish US Male Fearful", language |-> "es-US", description |-> "FastPitch model - Spanish US Male Fearful emotion", accent |-> "US", gender |-> "Male", preview_url |-> ""],
    [voice_id |-> "Spanish-US.Male-Sad", name |-> "Spanish US Male Sad", language |-> "es-US", description |-> "FastPitch model - Spanish US Male Sad emotion", accent |-> "US", gender |-> "Male", preview_url |-> ""],
    [voice_id |-> "Italian-IT-Female-1", name |-> "Italian IT Female 1", language |-> "it-IT", description |-> "FastPitch model - Italian Italy Female voice 1", accent |-> "IT", gender |-> "Female", preview_url |-> ""],
    [voice_id |-> "Italian-IT-Male-1", name |-> "Italian IT Male 1", language |-> "it-IT", description |-> "FastPitch model - Italian Italy Male voice 1", accent |-> "IT", gender |-> "Male", preview_url |-> ""],
    [voice_id |-> "German-DE-Male-1", name |-> "German DE Male 1", language |-> "de-DE", description |-> "FastPitch model - German Germany Male voice 1", accent |-> "DE", gender |-> "Male", preview_url |-> ""]
  >>

ApiKeys == {"key"}

\* the raw list of the get_voices classmethod that is running
RawVoices(pc) == IF pc = "aws" THEN AWSPollyRawVoices ELSE NvidiaRawVoices

\* AWSPollyTTSService.get_voices(api_key) is called
AWSPollyGetVoices ==
  \E api_key \in ApiKeys :
    /\ cat_pc \in {"idle", "aws_done", "nvidia_done"}
    /\ cat_pc' = "aws"
    /\ voices' = <<>>
    /\ UNCHANGED <<awsVars, langVars, nvVars, llmVars, convVars>>

\* NvidiaTTSService.get_voices(api_key) is called
NvidiaGetVoices ==
  \E api_key \in ApiKeys :
    /\ cat_pc \in {"idle", "aws_done", "nvidia_done"}
    /\ cat_pc' = "nvidia"
    /\ voices' = <<>>
    /\ UNCHANGED <<awsVars, langVars, nvVars, llmVars, convVars>>

\* one iteration of the comprehension `for v in raw`
GetVoicesEntry ==
  /\ cat_pc \in {"aws", "nvidia"}
  /\ Len(voices) < Len(RawVoices(cat_pc))
  /\ voices' = Append(voices, VoiceEntry(RawVoices(cat_pc)[Len(voices) + 1]))
  /\ UNCHANGED <<cat_pc, awsVars, langVars, nvVars, llmVars, convVars>>

\* the comprehension is exhausted and the list is returned
GetVoicesReturn ==
  /\ cat_pc \in {"aws", "nvidia"}
  /\ Len(voices) = Len(RawVoices(cat_pc))
  /\ cat_pc' = IF cat_pc = "aws" THEN "aws_done" ELSE "nvidia_done"
  /\ UNCHANGED <<voices, awsVars, langVars, nvVars, llmVars, convVars>>

(***************************************************************************)
(* AWSPollyTTSService                                                      *)
(***************************************************************************)
Engines == {None, "standard", "neural", "generative"}
Pitches == {None, "", "high"}
Rates == {None, "fast"}
Volumes == {None, "loud"}
LexiconChoices == {NoneList, <<"lex1">>}
Texts == {"hello", "a<b"}
RunLanguages == {None, "FR_CA", "AF"}
AWSDefaultVoice == "Joanna"

\* AWSPollyTTSService.InputParams
InputParams(Langs) ==
  [engine : Engines, language : Langs, pitch : Pitches, rate : Rates,
   volume : Volumes, lexicon_names : LexiconChoices]

\* the _settings dictionary built by __init__; unresolved is the outcome of
\* the language lookup when params.language has no entry
AWSSettings(params, unresolved) ==
  [engine |-> params.engine,
   language |-> IF params.language # None
                THEN language_to_service_language(params.language, unresolved)
                ELSE "en-US",
   pitch |-> params.pitch,
   rate |-> params.rate,
   volume |-> params.volume,
   lexicon_names |-> params.lexicon_names]

\* ' '.join(prosody_attrs), each attribute being a sequence of tokens
RECURSIVE JoinAttrs(_)
JoinAttrs(attrs) ==
  IF attrs = <<>> THEN <<>>
  ELSE IF Len(attrs) = 1 THEN Head(attrs)
  ELSE Head(attrs) \o <<" ">> \o JoinAttrs(Tail(attrs))

\* prosody_attrs with pitch applied for the neural engine too
prosody_attrs_neural(settings) ==
  (IF settings.engine \in {"standard", "neural"} /\ Truthy(settings.pitch)
   THEN << <<"pitch='", settings.pitch, "'">> >> ELSE <<>>)
  \o (IF Truthy(settings.rate)
      THEN << <<"rate='", settings.rate, "'">> >> ELSE <<>>)
  \o (IF Truthy(settings.volume)
      THEN << <<"volume='", settings.volume, "'">> >> ELSE <<>>)

\* the list prosody_attrs of _construct_ssml
prosody_attrs(settings) ==
  (IF settings.engine = "standard" /\ Truthy(settings.pitch)
   THEN << <<"pitch='", settings.pitch, "'">> >> ELSE <<>>)
  \o (IF Truthy(settings.rate)
      THEN << <<"rate='", settings.rate, "'">> >> ELSE <<>>)
  \o (IF Truthy(settings.volume)
      THEN << <<"volume='", settings.volume, "'">> >> ELSE <<>>)

\* _construct_ssml closing <lang> before <prosody>
construct_ssml_misnested(settings, text) ==
  <<"<speak>">>
  \o <<"<lang xml:lang='", Str(settings.language), "'>">>
  \o (IF prosody_attrs(settings) # <<>>
      THEN <<"<prosody ">> \o JoinAttrs(prosody_attrs(settings)) \o <<">">>
      ELSE <<>>)
  \o <<text>>
  \o <<"</lang>">>
  \o (IF prosody_attrs(settings) # <<>> THEN <<"</prosody>">> ELSE <<>>)
  \o <<"</speak>">>

\* AWSPollyTTSService._construct_ssml: the tokens of the returned string
construct_ssml(settings, text) ==
  <<"<speak>">>
  \o <<"<lang xml:lang='", Str(settings.language), "'>">>
  \o (IF prosody_attrs(settings) # <<>>
      THEN <<"<prosody ">> \o JoinAttrs(prosody_attrs(settings)) \o <<">">>
      ELSE <<>>)
  \o <<text>>
  \o (IF prosody_attrs(settings) # <<>> THEN <<"</prosody>">> ELSE <<>>)
  \o <<"</lang>">>
  \o <<"</speak>">>

\* the params dictionary of run_tts
PollyParams(settings, voice_id, text) ==
  [Text |-> construct_ssml(settings, text),
   TextType |-> "ssml",
   OutputFormat |-> "pcm",
   VoiceId |-> voice_id,
   Engine |-> settings.engine,
   SampleRate |-> "16000",
   LexiconNames |-> settings.lexicon_names]

\* None as the value of key k of the params dictionary
NoneFor(k) == IF k \in {"Text", "LexiconNames"} THEN NoneList ELSE None

\* a filter that drops nothing
FilterNone_keep(params) == params

\* {k: v for k, v in params.items() if v is not None}
FilterNone(params) ==
  [k \in {j \in DOMAIN params : params[j] # NoneFor(j)} |-> params[k]]

\* what the Polly client can do with one request
PollyOutcomes == {"ok", "no_stream", "BotoCoreError", "ClientError", "Exception"}

\* a handler that lets the error through without an ErrorFrame
polly_except_silent(error) == [frames |-> <<>>, pending |-> error]

\* the `except (BotoCoreError, ClientError) as error` handler: the frames it
\* yields and the exception still in flight after it
polly_except(error) ==
  [frames |-> <<ErrorFrame(<<"AWS Polly TTS error: ", error>>)>>, pending |-> None]

\* state of a constructed AWSPollyTTSService that has not run yet
AWSPollyInit(Langs) ==
  \E params \in InputParams(Langs) :
   \E unresolved \in UnresolvedOutcomes(params.language, FALSE) :
    /\ aws_settings = AWSSettings(params, unresolved)
    /\ aws_voice_id = AWSDefaultVoice
    /\ aws_pc = "idle"
    /\ aws_text = None
    /\ aws_outcome = None
    /\ aws_request = <<>>
    /\ aws_audio = <<>>
    /\ aws_chunk_size = 1
    /\ aws_i = 0
    /\ aws_frames = <<>>
    /\ aws_pending = None
    /\ aws_raised = None

\* run_tts up to `await polly.synthesize_speech(**filtered_params)`: the
\* request is built from the settings and handed to Polly; the generator
\* waits for the answer
PollyRunTTS ==
  \E text \in Texts :
    /\ aws_pc = "idle"
    /\ aws_text' = text
    /\ aws_request' = FilterNone(PollyParams(aws_settings, aws_voice_id, text))
    /\ aws_pc' = "request"
    /\ UNCHANGED <<aws_settings, aws_voice_id, aws_outcome, aws_audio, aws_chunk_size,
                   aws_i, aws_frames, aws_pending, aws_raised,
                   langVars, catVars, nvVars, llmVars, convVars>>

\* Polly answers: from the answer to the first yield of the run, the audio
\* is read and resampled.  `resampled` is what the stream resampler returns
\* for the audio that was read.
PollySynthesize ==
  \E outcome \in PollyOutcomes,
     resampled \in BuffersUpTo(MaxAudioLen), chunk_size \in 1..MaxChunkSize,
     resample_raises \in BOOLEAN :
    /\ aws_pc = "request"
    /\ outcome # "ok" => resampled = <<>> /\ chunk_size = 1
    /\ outcome # "no_stream" => resample_raises = FALSE
    /\ aws_outcome' = outcome
    /\ aws_chunk_size' = chunk_size
    /\ aws_i' = 0
    /\ aws_raised' = None
    /\ CASE outcome = "ok" ->
              /\ aws_audio' = resampled
              /\ aws_frames' = <<TTSStartedFrame>>
              /\ aws_pending' = None
              /\ aws_pc' = "loop"
         [] outcome = "no_stream" /\ resample_raises ->
              \* audio_data = None is rejected by the resampler
              /\ aws_audio' = NoneAudio
              /\ aws_frames' = <<>>
              /\ aws_pending' = "TypeError"
              /\ aws_pc' = "finally"
         [] outcome = "no_stream" /\ ~resample_raises ->
              \* the resampler hands None back
              /\ aws_audio' = NoneAudio
              /\ aws_frames' = <<TTSStartedFrame>>
              /\ aws_pending' = None
              /\ aws_pc' = "loop"
         [] outcome \in {"BotoCoreError", "ClientError"} ->
              /\ aws_audio' = <<>>
              /\ aws_frames' = polly_except(outcome).frames
              /\ aws_pending' = polly_except(outcome).pending
              /\ aws_pc' = "finally"
         [] outcome = "Exception" ->
              /\ aws_audio' = <<>>
              /\ aws_frames' = <<>>
              /\ aws_pending' = "Exception"
              /\ aws_pc' = "finally"
    /\ UNCHANGED <<aws_settings, aws_voice_id, aws_text, aws_request,
                   langVars, catVars, nvVars, llmVars, convVars>>

\* the slice with its end one byte short
Chunk_short(audio, i, chunk_size) ==
  SubSeq(audio, i + 1, Min(i + chunk_size, Len(audio)) - 1)

\* audio_data[i : i + CHUNK_SIZE]
Chunk(audio, i, chunk_size) == SubSeq(audio, i + 1, Min(i + chunk_size, Len(audio)))

\* one iteration of `for i in range(0, len(audio_data), CHUNK_SIZE)`
PollyChunk ==
  /\ aws_pc = "loop"
  /\ aws_audio # NoneAudio
  /\ aws_i < Len(aws_audio)
  /\ aws_frames' =
       IF Len(Chunk(aws_audio, aws_i, aws_chunk_size)) > 0
       THEN Append(aws_frames, TTSAudioRawFrame(Chunk(aws_audio, aws_i, aws_chunk_size)))
       ELSE aws_frames
  /\ aws_i' = aws_i + aws_chunk_size
  /\ UNCHANGED <<aws_settings, aws_voice_id, aws_pc, aws_text, aws_outcome, aws_request,
                 aws_audio, aws_chunk_size, aws_pending, aws_raised,
                 langVars, catVars, nvVars, llmVars, convVars>>

\* the loop is exhausted: `yield TTSStoppedFrame()` inside the try block
PollyLoopEnd ==
  /\ aws_pc = "loop"
  /\ aws_audio # NoneAudio
  /\ aws_i >= Len(aws_audio)
  /\ aws_frames' = Append(aws_frames, TTSStoppedFrame)
  /\ aws_pc' = "finally"
  /\ UNCHANGED <<aws_settings, aws_voice_id, aws_text, aws_outcome, aws_request,
                 aws_audio, aws_chunk_size, aws_i, aws_pending, aws_raised,
                 langVars, catVars, nvVars, llmVars, convVars>>

\* len(audio_data) with audio_data = None raises TypeError
PollyLenFails ==
  /\ aws_pc = "loop"
  /\ aws_audio = NoneAudio
  /\ aws_pending' = "TypeError"
  /\ aws_pc' = "finally"
  /\ UNCHANGED <<aws_settings, aws_voice_id, aws_text, aws_outcome, aws_request,
                 aws_audio, aws_chunk_size, aws_i, aws_frames, aws_raised,
                 langVars, catVars, nvVars, llmVars, convVars>>

\* the finally block: `yield TTSStoppedFrame()`; the generator is suspended
\* at that yield, an exception in flight stays pending
PollyFinally ==
  /\ aws_pc = "finally"
  /\ aws_frames' = Append(aws_frames, TTSStoppedFrame)
  /\ aws_pc' = "stopped"
  /\ UNCHANGED <<aws_settings, aws_voice_id, aws_text, aws_outcome, aws_request,
                 aws_audio, aws_chunk_size, aws_i, aws_pending, aws_raised,
                 langVars, catVars, nvVars, llmVars, convVars>>

\* the consumer resumes the generator after the yield of the finally block:
\* the generator ends, and the pending exception, if any, leaves it
PollyFinallyResume ==
  /\ aws_pc = "stopped"
  /\ aws_raised' = aws_pending
  /\ aws_pending' = None
  /\ aws_pc' = "done"
  /\ UNCHANGED <<aws_settings, aws_voice_id, aws_text, aws_outcome, aws_request,
                 aws_audio, aws_chunk_size, aws_i, aws_frames,
                 langVars, catVars, nvVars, llmVars, convVars>>

\* the consumer closes the generator (aclose) instead of resuming it after
\* the yield of the finally block: a pending exception is never raised
PollyClose ==
  /\ aws_pc = "stopped"
  /\ aws_raised' = None
  /\ aws_pending' = None
  /\ aws_pc' = "done"
  /\ UNCHANGED <<aws_settings, aws_voice_id, aws_text, aws_outcome, aws_request,
                 aws_audio, aws_chunk_size, aws_i, aws_frames,
                 langVars, catVars, nvVars, llmVars, convVars>>

\* the consumer has taken the frames of the finished run; the service can
\* run again
PollyReturn ==
  /\ aws_pc = "done"
  /\ aws_pc' = "idle"
  /\ aws_text' = None
  /\ aws_outcome' = None
  /\ aws_request' = <<>>
  /\ aws_audio' = <<>>
  /\ aws_chunk_size' = 1
  /\ aws_i' = 0
  /\ aws_frames' = <<>>
  /\ aws_raised' = None
  /\ UNCHANGED <<aws_settings, aws_voice_id, aws_pending, langVars, catVars, nvVars, llmVars, convVars>>

\* AWSPollyTTSService.language_to_service_language(language)
PollyLanguageToService ==
  \E language \in Language :
   \E unresolved \in UnresolvedOutcomes(language, FALSE) :
    /\ lang_arg' = language
    /\ lang_result' = language_to_service_language(language, unresolved)
    /\ UNCHANGED <<awsVars, catVars, nvVars, llmVars, convVars>>

(***************************************************************************)
(* NvidiaTTSService                                                        *)
(***************************************************************************)
NvidiaDefaultVoice == "Magpie-Multilingual.EN-US.Aria"

NvidiaDefaultMap ==
  [function_id |-> "877104f7-e885-42b9-8de8-f6e4c6303969",
   model_name |-> "magpie-tts-multilingual"]

ModelFunctionMaps ==
  {NvidiaDefaultMap, [function_id |-> "fn-custom", model_name |-> "fastpitch-hifigan-tts"]}

NvidiaVoiceIds == {NvidiaDefaultVoice, "English-US.Female-1"}

ModelNames == {"magpie-tts-multilingual", "other-model"}

\* audio payloads of provider responses
ResponseAudios == {<<>>, <<0>>, <<1>>}

StreamEnds == {"end", "TimeoutError", "Exception"}

\* what the provider does with one synthesize_online request: the responses
\* it produces, then how the response stream ends
ProviderStreams ==
  [responses : UNION {[1..k -> ResponseAudios] : k \in 0..MaxResponses},
   final : StreamEnds]

NoStream == [responses |-> <<>>, final |-> "end"]

\* state after NvidiaTTSService.__init__
NvidiaInit(Maps, VoiceIds) ==
  \E model_function_map \in Maps, voice_id \in VoiceIds :
    /\ nv_ctor = [model_function_map |-> model_function_map, voice_id |-> voice_id]
    /\ nv_function_id = model_function_map.function_id
    /\ nv_model_name = model_function_map.model_name
    /\ nv_voice_id = voice_id
    /\ nv_service = None
    /\ nv_config = None
    /\ nv_pc = "idle"
    /\ nv_stream = NoStream
    /\ nv_k = 0
    /\ nv_frames = <<>>
    /\ nv_raised = None
    /\ nv_set_model_arg = None
    /\ nv_clients_created = 0
    /\ nv_requested = FALSE
    /\ nv_starts = 0

\* a set_model that stores the model name
set_model_assign(model_name, function_id, model) == <<model, function_id>>

\* effect of set_model on the model name and the function id: none, the
\* method only logs two warnings
set_model(model_name, function_id, model) == <<model_name, function_id>>

\* NvidiaTTSService.set_model(model)
NvidiaSetModel ==
  \E model \in ModelNames :
    /\ nv_model_name' = set_model(nv_model_name, nv_function_id, model)[1]
    /\ nv_function_id' = set_model(nv_model_name, nv_function_id, model)[2]
    /\ nv_set_model_arg' = model
    /\ UNCHANGED <<nv_voice_id, nv_service, nv_config, nv_pc, nv_stream, nv_k,
                   nv_frames, nv_raised, nv_ctor, nv_clients_created, nv_requested,
                   nv_starts,
                   awsVars, langVars, catVars, llmVars, convVars>>

\* an _initialize_client without its early return
initialize_client_always(service, created) ==
  "SpeechSynthesisService#" \o ToString(created + 1)

\* NvidiaTTSService._initialize_client: the client after the call; `created`
\* is the number of clients created before it, a new client is named after
\* its rank
initialize_client(service, created) ==
  IF service # None THEN service
  ELSE "SpeechSynthesisService#" \o ToString(created + 1)

\* NvidiaTTSService.start(frame); config_ok tells whether the
\* GetRivaSynthesisConfig call of _create_synthesis_config returns or raises
NvidiaStart ==
  \E config_ok \in BOOLEAN :
    /\ nv_pc = "idle"
    /\ nv_service' = initialize_client(nv_service, nv_clients_created)
    /\ nv_clients_created' =
         IF initialize_client(nv_service, nv_clients_created) # nv_service
         THEN nv_clients_created + 1 ELSE nv_clients_created
    /\ nv_starts' = Min(nv_starts + 1, MaxStarts)
    /\ IF config_ok
       THEN nv_config' = "RivaSynthesisConfigResponse" /\ nv_raised' = None
       ELSE nv_config' = nv_config /\ nv_raised' = "RpcError"
    /\ UNCHANGED <<nv_model_name, nv_function_id, nv_voice_id, nv_pc, nv_stream,
                   nv_k, nv_frames, nv_ctor, nv_set_model_arg, nv_requested,
                   awsVars, langVars, catVars, llmVars, convVars>>

\* a handler that only logs
exception_handler_log_only(frames, e) == [frames |-> frames, raised |-> None]

\* the `except Exception as e` handler: it logs e and yields an ErrorFrame;
\* "{self}" stands for str(self)
exception_handler(frames, e) ==
  [frames |-> Append(frames, ErrorFrame(<<"{self}", " error: ", e>>)), raised |-> None]

\* the message of the first assertion of run_tts that fails
AssertionFailure(service, config) ==
  IF service = None THEN "TTS service not initialized"
  ELSE "Synthesis configuration not created"

\* run_tts up to its first yield: the two assertions, then TTSStartedFrame.
\* A failed assertion is an AssertionError, caught by `except Exception`.
NvidiaRunTTS ==
  /\ nv_pc = "idle"
  /\ nv_raised' = None
  /\ nv_k' = 0
  /\ nv_stream' = NoStream
  /\ nv_requested' = FALSE
  /\ IF nv_service # None /\ nv_config # None
     THEN /\ nv_frames' = <<TTSStartedFrame>>
          /\ nv_pc' = "started"
     ELSE /\ nv_frames' =
               exception_handler(<<>>, AssertionFailure(nv_service, nv_config)).frames
          /\ nv_pc' = "done"
  /\ UNCHANGED <<nv_model_name, nv_function_id, nv_voice_id, nv_service, nv_config,
                 nv_ctor, nv_set_model_arg, nv_clients_created, nv_starts,
                 awsVars, langVars, catVars, llmVars, convVars>>

\* run_tts resumes after TTSStartedFrame: read_audio_responses calls
\* synthesize_online; `stream` is what the provider does with the request
NvidiaSynthesize ==
  \E stream \in ProviderStreams :
    /\ nv_pc = "started"
    /\ nv_stream' = stream
    /\ nv_requested' = TRUE
    /\ nv_pc' = "stream"
    /\ UNCHANGED <<nv_model_name, nv_function_id, nv_voice_id, nv_service, nv_config,
                   nv_k, nv_frames, nv_raised, nv_ctor, nv_set_model_arg,
                   nv_clients_created, nv_starts, awsVars, langVars, catVars, llmVars, convVars>>

\* a loop body that skips responses without audio
response_frames_skip_empty(audio) ==
  IF audio = <<>> THEN <<>> ELSE <<TTSAudioRawFrame(audio)>>

\* the frames the body of `async for resp in async_iterator(responses)`
\* yields for a response with audio payload `audio`
response_frames(audio) == <<TTSAudioRawFrame(audio)>>

\* one iteration of `async for resp in async_iterator(responses)`
NvidiaResponse ==
  /\ nv_pc = "stream"
  /\ nv_k < Len(nv_stream.responses)
  /\ nv_frames' = nv_frames \o response_frames(nv_stream.responses[nv_k + 1])
  /\ nv_k' = nv_k + 1
  /\ UNCHANGED <<nv_model_name, nv_function_id, nv_voice_id, nv_service, nv_config, nv_pc,
                 nv_stream, nv_raised, nv_ctor, nv_set_model_arg, nv_clients_created,
                 nv_requested, nv_starts,
                 awsVars, langVars, catVars, llmVars, convVars>>

\* the iterator is exhausted: `yield TTSStoppedFrame()`
NvidiaStreamEnd ==
  /\ nv_pc = "stream"
  /\ nv_k = Len(nv_stream.responses)
  /\ nv_stream.final = "end"
  /\ nv_frames' = Append(nv_frames, TTSStoppedFrame)
  /\ nv_pc' = "done"
  /\ UNCHANGED <<nv_model_name, nv_function_id, nv_voice_id, nv_service, nv_config,
                 nv_stream, nv_k, nv_raised, nv_ctor, nv_set_model_arg,
                 nv_clients_created, nv_requested, nv_starts, awsVars, langVars, catVars, llmVars, convVars>>

\* the `except asyncio.TimeoutError` handler: its f-string reads `e`, a local
\* of run_tts (bound only by `except Exception as e`) that has no value here,
\* so building the ErrorFrame raises UnboundLocalError
timeout_handler(frames) ==
  [frames |-> frames, raised |-> "UnboundLocalError"]

\* waiting for the next response raises asyncio.TimeoutError
NvidiaTimeout ==
  /\ nv_pc = "stream"
  /\ nv_k = Len(nv_stream.responses)
  /\ nv_stream.final = "TimeoutError"
  /\ nv_frames' = timeout_handler(nv_frames).frames
  /\ nv_raised' = timeout_handler(nv_frames).raised
  /\ nv_pc' = "done"
  /\ UNCHANGED <<nv_model_name, nv_function_id, nv_voice_id, nv_service, nv_config,
                 nv_stream, nv_k, nv_ctor, nv_set_model_arg,
                 nv_clients_created, nv_requested, nv_starts, awsVars, langVars, catVars, llmVars, convVars>>

\* the provider stream fails with another exception, handled by
\* `except Exception as e`
NvidiaException ==
  /\ nv_pc = "stream"
  /\ nv_k = Len(nv_stream.responses)
  /\ nv_stream.final = "Exception"
  /\ nv_frames' = exception_handler(nv_frames, "Exception").frames
  /\ nv_raised' = exception_handler(nv_frames, "Exception").raised
  /\ nv_pc' = "done"
  /\ UNCHANGED <<nv_model_name, nv_function_id, nv_voice_id, nv_service, nv_config,
                 nv_stream, nv_k, nv_ctor,
                 nv_set_model_arg, nv_clients_created, nv_requested, nv_starts,
                 awsVars, langVars, catVars, llmVars, convVars>>

\* the consumer has taken the frames of the finished run; the service can
\* run again
NvidiaReturn ==
  /\ nv_pc = "done"
  /\ nv_pc' = "idle"
  /\ nv_stream' = NoStream
  /\ nv_k' = 0
  /\ nv_frames' = <<>>
  /\ nv_raised' = None
  /\ nv_requested' = FALSE
  /\ UNCHANGED <<nv_model_name, nv_function_id, nv_voice_id, nv_service, nv_config,
                 nv_ctor, nv_set_model_arg, nv_clients_created, nv_starts,
                 awsVars, langVars, catVars, llmVars, convVars>>

(***************************************************************************)
(* MyLLMService (my_service/llm.py)                                        *)
(* A message is a dict; every message carries the four keys the code uses, *)
(* a key the dict lacks holding None (no tool calls: the empty list).      *)
(* A content string is a sequence of string tokens; "" is <<>> and a       *)
(* content of None is NoneList.                                            *)
(***************************************************************************)
Msg(role, content) ==
  [role |-> role, content |-> content, tool_calls |-> <<>>, tool_call_id |-> None]

\* one entry of message.tool_calls of a chat completion
ToolCall(id, name) == [id |-> id, name |-> name]

\* a chat completion: response.choices[0].message
ChatCompletion(id, content, tool_calls) ==
  [id |-> id, content |-> content, tool_calls |-> tool_calls]

\* None where a chat completion is expected
NoCompletion == ChatCompletion(None, NoneList, <<>>)

LLMResponse(text, raw) == [text |-> text, raw |-> raw]

\* no exception
NoError == [type |-> None, message |-> None]

\* the model the driver and the compaction construct the service with
LLMModel == "gpt-4.1"

\* create_tools(): the names of the functions offered to the provider
create_tools == <<"get_current_time">>

\* a chat.completions.create call: tools = <<>> and tool_choice = None when
\* the call passes neither
Request(messages, tools, tool_choice) ==
  [model |-> LLMModel, messages |-> messages, tools |-> tools,
   tool_choice |-> tool_choice]

\* the first create call of generate: tools and tool_choice are passed
first_request(messages) == Request(messages, create_tools, "auto")

\* the create call of the tool-call branch: model and messages only
second_request_with_tools(messages) == Request(messages, create_tools, "auto")

second_request(messages) == Request(messages, <<>>, None)

\* not v, for a content string or None
ContentFalsy_none_only(content) == content = NoneList

ContentFalsy(content) == content = <<>> \/ content = NoneList

\* the lists generate is called with
SystemPrompt == Msg("system", <<"You are a helpful assistant.">>)

UserContents == {<<"hello">>, <<>>, NoneList}

Histories ==
  {<<>>, <<SystemPrompt>>,
   <<SystemPrompt, Msg("user", <<"hi">>), Msg("assistant", <<"reply">>)>>}

MessageLists ==
  {<<>>, <<SystemPrompt>>}
    \cup {h \o <<Msg("user", c)>> : h \in Histories, c \in UserContents}

\* what the provider answers to the first and to the second request
ToolCallLists ==
  {<<>>,
   <<ToolCall("call_1", "get_current_time")>>,
   <<ToolCall("call_1", "get_current_time"), ToolCall("call_2", "get_current_time")>>,
   <<ToolCall("call_1", "get_weather")>>}

FirstResponses ==
  {ChatCompletion("chatcmpl-1", c, t) : c \in {NoneList, <<"reply">>}, t \in ToolCallLists}

SecondResponses ==
  {ChatCompletion("chatcmpl-2", c, <<>>) : c \in {NoneList, <<"final">>}}

\* raise "No messages provided": a str is not an exception, Python raises
\* TypeError in its place
raise_str(message) ==
  [type |-> "TypeError", message |-> "exceptions must derive from BaseException"]

\* tool_calls(tool_call): the clock reading, None for any other name
tool_calls(tool_call) ==
  IF tool_call = "get_current_time" THEN <<"%H:%M:%S">> ELSE NoneList

\* the two appends of the tool-call branch
tool_call_messages(messages, response) ==
  messages
    \o <<[role |-> "assistant", content |-> response.content,
          tool_calls |-> response.tool_calls, tool_call_id |-> None]>>
    \o <<[role |-> "tool", content |-> tool_calls(response.tool_calls[1].name),
          tool_calls |-> <<>>, tool_call_id |-> response.tool_calls[1].id]>>

LLMInit ==
  /\ llm_messages = <<>>
  /\ llm_arg = <<>>
  /\ llm_pc = "idle"
  /\ llm_requests = <<>>
  /\ llm_responses = <<>>
  /\ llm_result = LLMResponse(NoneList, NoCompletion)
  /\ llm_raised = NoError

\* generate(messages) up to `await asyncio.sleep(0.5)`: the emptiness check.
\* messages is the caller's own list (_to_provider_messages returns it).
GenerateCall(messages) ==
  /\ llm_pc = "idle"
  /\ llm_arg' = messages
  /\ llm_messages' = messages
  /\ IF messages = <<>>
     THEN /\ llm_raised' = raise_str("No messages provided")
          /\ llm_pc' = "done"
     ELSE /\ llm_pc' = "sleep"
          /\ UNCHANGED llm_raised
  /\ UNCHANGED <<llm_requests, llm_responses, llm_result>>

\* the sleep is over: messages[-1]["content"] is read from the list as it is
\* now, and the first request is sent unless that content is falsy
GenerateWake ==
  /\ llm_pc = "sleep"
  /\ IF llm_messages = <<>>
     THEN /\ llm_raised' = [type |-> "IndexError", message |-> "list index out of range"]
          /\ llm_pc' = "done"
          /\ UNCHANGED <<llm_requests, llm_result>>
     ELSE IF ContentFalsy(llm_messages[Len(llm_messages)].content)
     THEN /\ llm_result' = LLMResponse(<<>>, NoCompletion)
          /\ llm_pc' = "done"
          /\ UNCHANGED <<llm_requests, llm_raised>>
     ELSE /\ llm_requests' = <<first_request(llm_messages)>>
          /\ llm_pc' = "first"
          /\ UNCHANGED <<llm_result, llm_raised>>
  /\ UNCHANGED <<llm_messages, llm_arg, llm_responses>>

\* the first completion arrives: generate returns it, or appends the
\* tool-call messages to the list and sends the second request
GenerateFirst(response) ==
  /\ llm_pc = "first"
  /\ llm_responses' = Append(llm_responses, response)
  /\ IF response.tool_calls # <<>>
     THEN /\ llm_messages' = tool_call_messages(llm_messages, response)
          /\ llm_requests' = Append(llm_requests, second_request(llm_messages'))
          /\ llm_pc' = "second"
          /\ UNCHANGED llm_result
     ELSE /\ llm_result' = LLMResponse(response.content, response)
          /\ llm_pc' = "done"
          /\ UNCHANGED <<llm_messages, llm_requests>>
  /\ UNCHANGED <<llm_arg, llm_raised>>

\* the completion of the second request arrives
GenerateSecond(response) ==
  /\ llm_pc = "second"
  /\ llm_responses' = Append(llm_responses, response)
  /\ llm_result' = LLMResponse(response.content, response)
  /\ llm_pc' = "done"
  /\ UNCHANGED <<llm_messages, llm_arg, llm_requests, llm_raised>>

\* a pending request raises asyncio.TimeoutError
GenerateTimeout ==
  /\ llm_pc \in {"first", "second"}
  /\ llm_raised' = [type |-> "RuntimeError", message |-> "LLM request timed out"]
  /\ llm_pc' = "done"
  /\ UNCHANGED <<llm_messages, llm_arg, llm_requests, llm_responses, llm_result>>

\* a pending request raises anything else: no handler, the exception leaves
\* generate
GenerateProviderError ==
  /\ llm_pc \in {"first", "second"}
  /\ llm_raised' = [type |-> "APIError", message |-> "provider error"]
  /\ llm_pc' = "done"
  /\ UNCHANGED <<llm_messages, llm_arg, llm_requests, llm_responses, llm_result>>

\* the task is cancelled while generate is suspended
GenerateCancelled ==
  /\ llm_pc \in {"sleep", "first", "second"}
  /\ llm_raised' = [type |-> "CancelledError", message |-> ""]
  /\ llm_pc' = "done"
  /\ UNCHANGED <<llm_messages, llm_arg, llm_requests, llm_responses, llm_result>>

\* the caller has taken the outcome; the service is ready for the next call
GenerateReturn ==
  /\ llm_pc = "done"
  /\ llm_pc' = "idle"
  /\ llm_messages' = <<>>
  /\ llm_arg' = <<>>
  /\ llm_requests' = <<>>
  /\ llm_responses' = <<>>
  /\ llm_result' = LLMResponse(NoneList, NoCompletion)
  /\ llm_raised' = NoError

\* generate called on its own
LLMGenerate ==
  \E messages \in MessageLists :
    /\ GenerateCall(messages)
    /\ UNCHANGED <<awsVars, langVars, catVars, nvVars, convVars>>

LLMWake ==
  /\ GenerateWake
  /\ UNCHANGED <<awsVars, langVars, catVars, nvVars, convVars>>

LLMFirstResponse ==
  \E response \in FirstResponses :
    /\ GenerateFirst(response)
    /\ UNCHANGED <<awsVars, langVars, catVars, nvVars, convVars>>

LLMSecondResponse ==
  \E response \in SecondResponses :
    /\ GenerateSecond(response)
    /\ UNCHANGED <<awsVars, langVars, catVars, nvVars, convVars>>

LLMTimeout ==
  /\ GenerateTimeout
  /\ UNCHANGED <<awsVars, langVars, catVars, nvVars, convVars>>

LLMProviderError ==
  /\ GenerateProviderError
  /\ UNCHANGED <<awsVars, langVars, catVars, nvVars, convVars>>

LLMCancelled ==
  /\ GenerateCancelled
  /\ UNCHANGED <<awsVars, langVars, catVars, nvVars, convVars>>

LLMReturn ==
  /\ GenerateReturn
  /\ UNCHANGED <<awsVars, langVars, catVars, nvVars, convVars>>

\* what another task of the caller may do to the list while generate is
\* suspended
ListChanges(messages) ==
  {<<>>, Append(messages, Msg("user", <<>>)), Append(messages, Msg("user", <<"later">>))}

\* another task of the event loop changes the caller's list while generate
\* is suspended in the sleep
LLMListChanged ==
  \E messages \in ListChanges(llm_messages) :
    /\ llm_pc = "sleep"
    /\ llm_messages = llm_arg
    /\ llm_messages' = messages
    /\ UNCHANGED <<llm_arg, llm_pc, llm_requests, llm_responses, llm_result, llm_raised,
                   awsVars, langVars, catVars, nvVars, convVars>>

(***************************************************************************)
(* The conversation driver and its history compaction                      *)
(* (my_service/llm_test.py)                                                *)
(***************************************************************************)
SUMMARY_TAG == "[SUMMARY]"

\* len(conversation) > 10
CompactionThreshold == 10

\* NON_SYSTEM[:-5], NON_SYSTEM[-5:]
KeptMessages == 5

\* if count > 2: break
SystemScanLimit == 2

\* the first turn of main that is followed by check_conversation_length
FirstCheckedTurn == 3

Max(a, b) == IF a > b THEN a ELSE b

\* content.startswith(tag): the tag is one token
startswith(content, tag) == Len(content) > 0 /\ content[1] = tag

\* str(content) inside an f-string
StrContent(content) == IF content = NoneList THEN <<"None">> ELSE content

\* str(dict) of a message inside an f-string: repr of the keys and values,
\* a newline of the content written as backslash-n
dict_str(m) ==
  <<"{'role': '", m.role, "', 'content': '">>
    \o [i \in 1..Len(m.content) |-> IF m.content[i] = "\n" THEN "\\n" ELSE m.content[i]]
    \o <<"'}">>

\* "\n".join(parts)
RECURSIVE join_lines(_)
join_lines(parts) ==
  IF parts = <<>> THEN <<>>
  ELSE IF Len(parts) = 1 THEN parts[1]
  ELSE parts[1] \o <<"\n">> \o join_lines(Tail(parts))

\* messages_to_text(messages, existing_summary); existing_summary is <<>> for
\* None and <<m>> for the dict m
messages_to_text(messages, existing_summary) ==
  join_lines(
    (IF existing_summary # <<>>
     THEN <<(<<"Summary so far:\n">> \o dict_str(existing_summary[1]))>>
     ELSE <<>>)
    \o [i \in 1..Len(messages) |->
          <<Str(messages[i].role), ": ">> \o StrContent(messages[i].content)])

\* the same loop when the summary is also appended to system_message
RECURSIVE scan_system_keep_summary(_, _, _)
scan_system_keep_summary(conv, i, st) ==
  IF i > Len(conv) THEN st
  ELSE IF conv[i].role # "system" THEN scan_system_keep_summary(conv, i + 1, st)
  ELSE LET convo == conv[i]
           st2 == IF startswith(convo.content, SUMMARY_TAG)
                  THEN [st EXCEPT !.existing_summary = <<convo>>,
                                  !.system_message = Append(@, convo), !.count = @ + 1]
                  ELSE [st EXCEPT !.system_message = Append(@, convo), !.count = @ + 1]
       IN IF st2.count > SystemScanLimit THEN st2
          ELSE scan_system_keep_summary(conv, i + 1, st2)

\* the for loop over the conversation, from index i on: st holds
\* system_message, existing_summary ([] is <<>>, a dict m is <<m>>) and count
RECURSIVE scan_system(_, _, _)
scan_system(conv, i, st) ==
  IF i > Len(conv) THEN st
  ELSE IF conv[i].role # "system" THEN scan_system(conv, i + 1, st)
  ELSE LET convo == conv[i]
           st2 == IF startswith(convo.content, SUMMARY_TAG)
                  THEN [st EXCEPT !.existing_summary = <<convo>>, !.count = @ + 1]
                  ELSE [st EXCEPT !.system_message = Append(@, convo), !.count = @ + 1]
       IN IF st2.count > SystemScanLimit THEN st2 ELSE scan_system(conv, i + 1, st2)

\* NON_SYSTEM = [m for m in conversation if m.get("role") != "system"]
IsNonSystem(m) == m.role # "system"

NON_SYSTEM(conv) == SelectSeq(conv, IsNonSystem)

\* NON_SYSTEM[:-5]
old_messages_short(non_system) ==
  SubSeq(non_system, 1, Max(0, Len(non_system) - KeptMessages - 1))

old_messages(non_system) ==
  SubSeq(non_system, 1, Max(0, Len(non_system) - KeptMessages))

\* NON_SYSTEM[-5:]
new_messages_all(non_system) == non_system

new_messages(non_system) ==
  SubSeq(non_system, Max(1, Len(non_system) - KeptMessages + 1), Len(non_system))

\* the old_text check_conversation_length passes to summarise_text
old_text(conv) ==
  LET st == scan_system(conv, 1, [system_message |-> <<>>, existing_summary |-> <<>>,
                                  count |-> 0])
  IN messages_to_text(old_messages(NON_SYSTEM(conv)), st.existing_summary)

\* summarise_text(old_text): the one request it sends
summarise_text(text) ==
  Request(<<Msg("system",
                <<"Summarize the conversation briefly. Keep important facts only.\n\n",
                  "Conversation:\n">> \o text)>>, <<>>, None)

\* what a check_conversation_length call returned: none is TRUE when it
\* returned None, value is the list otherwise
Returned(none, value) == [called |-> TRUE, none |-> none, value |-> value]

NotCalled == [called |-> FALSE, none |-> FALSE, value |-> <<>>]

\* check_conversation_length(conversation), summary being the content of the
\* provider's answer to summarise_text
check_conversation_length_summary_first(conv, summary) ==
  IF Len(conv) > CompactionThreshold
  THEN LET st == scan_system(conv, 1, [system_message |-> <<>>,
                                       existing_summary |-> <<>>, count |-> 0])
       IN Returned(FALSE,
                   <<Msg("system", <<SUMMARY_TAG, "\n">> \o StrContent(summary))>>
                     \o st.system_message
                     \o new_messages(NON_SYSTEM(conv)))
  ELSE Returned(TRUE, <<>>)

check_conversation_length(conv, summary) ==
  IF Len(conv) > CompactionThreshold
  THEN LET st == scan_system(conv, 1, [system_message |-> <<>>,
                                       existing_summary |-> <<>>, count |-> 0])
       IN Returned(FALSE,
                   st.system_message
                     \o <<Msg("system", <<SUMMARY_TAG, "\n">> \o StrContent(summary))>>
                     \o new_messages(NON_SYSTEM(conv)))
  ELSE Returned(TRUE, <<>>)

\* contents the provider answers summarise_text with
Summaries == {<<"they greeted each other">>, NoneList}

\* the system prompt main starts the conversation with
DriverSystemPrompt ==
  Msg("system", <<"You are a helpful assistant. Answer to everthing in single sentence">>)

ConvInit ==
  /\ conversation = <<DriverSystemPrompt>>
  /\ conv_pc = "user"
  /\ conv_turns = 1
  /\ conv_input = <<>>
  /\ conv_summary = NoneList
  /\ conv_sent = <<>>
  /\ conv_result = NotCalled
  /\ conv_raised = NoError

\* exceptions a pending summarise_text request ends with; summarise_text and
\* check_conversation_length catch nothing
SummariseErrors ==
  {[type |-> "TimeoutError", message |-> ""],
   [type |-> "APIError", message |-> "provider error"],
   [type |-> "CancelledError", message |-> ""]}

\* check_conversation_length(conv) on more than 10 messages, up to the await
\* inside summarise_text: the text is built and sent
CompactionSend(conv) ==
  /\ conv_input' = conv
  /\ conv_sent' = old_text(conv)
  /\ conv_summary' = NoneList
  /\ conv_result' = NotCalled
  /\ UNCHANGED conv_raised

\* the provider answers summarise_text: the list is built and returned
CompactionReceive(summary) ==
  /\ conv_summary' = summary
  /\ conv_result' = check_conversation_length(conv_input, summary)
  /\ UNCHANGED <<conv_input, conv_sent, conv_raised>>

\* the pending request fails: the exception leaves check_conversation_length
CompactionFail(error) ==
  /\ conv_raised' = error
  /\ UNCHANGED <<conv_input, conv_summary, conv_sent, conv_result>>

\* a turn of main, first line: the user message is appended
DriverUser ==
  /\ conv_pc = "user"
  /\ conversation' = Append(conversation, Msg("user", <<"user message">>))
  /\ conv_pc' = "generate"
  /\ UNCHANGED <<conv_turns, conv_input, conv_summary, conv_sent, conv_result,
                 conv_raised, awsVars, langVars, catVars, nvVars, llmVars>>

\* what the provider answers the driver's requests with: a reply, or a call
\* of the one tool create_tools offers
DriverFirstResponses ==
  {r \in FirstResponses :
     \/ r.tool_calls = <<>> /\ r.content # NoneList
     \/ /\ Len(r.tool_calls) = 1
        /\ r.tool_calls[1].name = create_tools[1]
        /\ r.content = NoneList}

DriverSecondResponses == {r \in SecondResponses : r.content # NoneList}

\* second line: `response = await llm.generate(conversation)`, up to the
\* sleep; generate works on the conversation list itself
DriverGenerate ==
  /\ conv_pc = "generate"
  /\ GenerateCall(conversation)
  /\ conv_pc' = "generating"
  /\ UNCHANGED <<conversation, conv_turns, conv_input, conv_summary, conv_sent,
                 conv_result, conv_raised, awsVars, langVars, catVars, nvVars>>

\* generate wakes up and sends the first request
DriverWake ==
  /\ conv_pc = "generating"
  /\ GenerateWake
  /\ UNCHANGED <<convVars, awsVars, langVars, catVars, nvVars>>

\* the first completion arrives; in the tool-call branch generate appends
\* its two messages to the conversation before it waits again
DriverFirstResponse ==
  \E response \in DriverFirstResponses :
    /\ conv_pc = "generating"
    /\ GenerateFirst(response)
    /\ conversation' = llm_messages'
    /\ UNCHANGED <<conv_pc, conv_turns, conv_input, conv_summary, conv_sent,
                   conv_result, conv_raised, awsVars, langVars, catVars, nvVars>>

\* the completion of the second request arrives
DriverSecondResponse ==
  \E response \in DriverSecondResponses :
    /\ conv_pc = "generating"
    /\ GenerateSecond(response)
    /\ UNCHANGED <<convVars, awsVars, langVars, catVars, nvVars>>

\* a request of generate times out
DriverTimeout ==
  /\ conv_pc = "generating"
  /\ GenerateTimeout
  /\ UNCHANGED <<convVars, awsVars, langVars, catVars, nvVars>>

\* a request of generate fails otherwise
DriverProviderError ==
  /\ conv_pc = "generating"
  /\ GenerateProviderError
  /\ UNCHANGED <<convVars, awsVars, langVars, catVars, nvVars>>

\* generate has returned; third line: the reply is appended
DriverReply ==
  /\ conv_pc = "generating"
  /\ llm_pc = "done"
  /\ llm_raised = NoError
  /\ conversation' = Append(conversation, Msg("assistant", llm_result.text))
  /\ conv_pc' = "check"
  /\ GenerateReturn
  /\ UNCHANGED <<conv_turns, conv_input, conv_summary, conv_sent, conv_result,
                 conv_raised, awsVars, langVars, catVars, nvVars>>

\* generate has raised: main catches nothing and ends with the exception
DriverFails ==
  /\ conv_pc = "generating"
  /\ llm_pc = "done"
  /\ llm_raised # NoError
  /\ conv_raised' = llm_raised
  /\ conv_pc' = "failed"
  /\ UNCHANGED <<conversation, conv_turns, conv_input, conv_summary, conv_sent,
                 conv_result, llmVars, awsVars, langVars, catVars, nvVars>>

\* last line, from the third turn on:
\* conversation = await check_conversation_length(conversation)
\*                if len(conversation) > 10 else conversation
\* up to the await inside summarise_text
DriverCheck ==
  /\ conv_pc = "check"
  /\ IF conv_turns >= FirstCheckedTurn /\ Len(conversation) > CompactionThreshold
     THEN /\ CompactionSend(conversation)
          /\ conv_pc' = "compacting"
          /\ UNCHANGED conv_turns
     ELSE /\ conv_pc' = "user"
          /\ conv_turns' =
               IF conv_turns < FirstCheckedTurn THEN conv_turns + 1 ELSE conv_turns
          /\ UNCHANGED <<conv_input, conv_summary, conv_sent, conv_result, conv_raised>>
  /\ UNCHANGED <<conversation, awsVars, langVars, catVars, nvVars, llmVars>>

\* the summary arrives: check_conversation_length returns and main assigns
\* the returned list to conversation
DriverSummary ==
  \E summary \in Summaries :
    /\ conv_pc = "compacting"
    /\ CompactionReceive(summary)
    /\ conversation' = conv_result'.value
    /\ conv_pc' = "user"
    /\ UNCHANGED <<conv_turns, awsVars, langVars, catVars, nvVars, llmVars>>

\* the summarise request fails: main ends with the exception, its
\* conversation not replaced
DriverSummaryFails ==
  \E error \in SummariseErrors :
    /\ conv_pc = "compacting"
    /\ CompactionFail(error)
    /\ conv_pc' = "failed"
    /\ UNCHANGED <<conversation, conv_turns, awsVars, langVars, catVars, nvVars, llmVars>>

\* conversations check_conversation_length is called with on its own:
\* n messages, those at the positions S system messages, those at T holding
\* a summary; every message has a content of its own
ConversationOf(n, S, T) ==
  [i \in 1..n |->
     IF i \in T THEN Msg("system", <<SUMMARY_TAG, "\n", "summary " \o ToString(i)>>)
     ELSE IF i \in S THEN Msg("system", <<"system " \o ToString(i)>>)
     ELSE Msg(IF i % 2 = 0 THEN "user" ELSE "assistant", <<"message " \o ToString(i)>>)]

\* a conversation about to be handed to check_conversation_length
CompactionInit ==
  /\ \E n \in CompactionThreshold..MaxConversationLen :
       \E S \in {X \in SUBSET (1..n) : Cardinality(X) <= MaxSystem} :
         \E T \in SUBSET S :
           conversation = ConversationOf(n, S, T)
  /\ conv_pc = "call"
  /\ conv_turns = 1
  /\ conv_input = <<>>
  /\ conv_summary = NoneList
  /\ conv_sent = <<>>
  /\ conv_result = NotCalled
  /\ conv_raised = NoError

\* check_conversation_length(conversation), called directly: returns at once
\* for 10 or fewer messages, else runs up to the await inside summarise_text
CheckConversationLength ==
  /\ conv_pc = "call"
  /\ IF Len(conversation) > CompactionThreshold
     THEN /\ CompactionSend(conversation)
          /\ conv_pc' = "summarising"
     ELSE /\ conv_input' = conversation
          /\ conv_result' = check_conversation_length(conversation, NoneList)
          /\ conv_pc' = "returned"
          /\ UNCHANGED <<conv_summary, conv_sent, conv_raised>>
  /\ UNCHANGED <<conversation, conv_turns, awsVars, langVars, catVars, nvVars, llmVars>>

\* the provider answers summarise_text: the call returns its list
CheckSummary ==
  \E summary \in Summaries :
    /\ conv_pc = "summarising"
    /\ CompactionReceive(summary)
    /\ conv_pc' = "returned"
    /\ UNCHANGED <<conversation, conv_turns, awsVars, langVars, catVars, nvVars, llmVars>>

\* the pending request fails or the task is cancelled: the call raises
CheckSummaryFails ==
  \E error \in SummariseErrors :
    /\ conv_pc = "summarising"
    /\ CompactionFail(error)
    /\ conv_pc' = "raised"
    /\ UNCHANGED <<conversation, conv_turns, awsVars, langVars, catVars, nvVars, llmVars>>

(***************************************************************************)
(* Specifications                                                          *)
(***************************************************************************)
LangInit == lang_arg = None /\ lang_result = None

CatInit == voices = <<>> /\ cat_pc = "idle"

\* AWSPollyTTSService: construction, run_tts, get_voices
Init ==
  /\ AWSPollyInit(RunLanguages)
  /\ LangInit
  /\ CatInit
  /\ NvidiaInit({NvidiaDefaultMap}, {NvidiaDefaultVoice})
  /\ LLMInit
  /\ ConvInit

Next ==
  \/ PollyRunTTS
  \/ PollySynthesize
  \/ PollyChunk
  \/ PollyLoopEnd
  \/ PollyLenFails
  \/ PollyFinally
  \/ PollyFinallyResume
  \/ PollyClose
  \/ PollyReturn

Spec == Init /\ [][Next]_vars

\* AWSPollyTTSService: construction with any language, language lookup
InitLanguage ==
  /\ AWSPollyInit(Language \cup {None})
  /\ aws_settings.pitch = None
  /\ aws_settings.rate = None
  /\ aws_settings.volume = None
  /\ aws_settings.lexicon_names = NoneList
  /\ LangInit
  /\ CatInit
  /\ NvidiaInit({NvidiaDefaultMap}, {NvidiaDefaultVoice})
  /\ LLMInit
  /\ ConvInit

NextLanguage ==
  \/ PollyLanguageToService

SpecLanguage == InitLanguage /\ [][NextLanguage]_vars

\* NvidiaTTSService: construction, start, set_model, run_tts, get_voices
\* an AWSPollyTTSService built with the default InputParams
AWSPollyDefault ==
  /\ AWSPollyInit({"EN"})
  /\ aws_settings.engine = None
  /\ aws_settings.pitch = None
  /\ aws_settings.rate = None
  /\ aws_settings.volume = None
  /\ aws_settings.lexicon_names = NoneList

InitNvidia ==
  /\ AWSPollyDefault
  /\ LangInit
  /\ CatInit
  /\ NvidiaInit(ModelFunctionMaps, NvidiaVoiceIds)
  /\ LLMInit
  /\ ConvInit

NextNvidia ==
  \/ NvidiaSetModel
  \/ NvidiaStart
  \/ NvidiaRunTTS
  \/ NvidiaSynthesize
  \/ NvidiaResponse
  \/ NvidiaStreamEnd
  \/ NvidiaTimeout
  \/ NvidiaException
  \/ NvidiaReturn

SpecNvidia == InitNvidia /\ [][NextNvidia]_vars

\* the voice catalogs: both get_voices classmethods, next to a constructed
\* NvidiaTTSService
InitVoices ==
  /\ AWSPollyDefault
  /\ LangInit
  /\ CatInit
  /\ NvidiaInit(ModelFunctionMaps, NvidiaVoiceIds)
  /\ LLMInit
  /\ ConvInit

NextVoices ==
  \/ AWSPollyGetVoices
  \/ NvidiaGetVoices
  \/ GetVoicesEntry
  \/ GetVoicesReturn

SpecVoices == InitVoices /\ [][NextVoices]_vars

\* MyLLMService.generate
InitLLM ==
  /\ AWSPollyDefault
  /\ LangInit
  /\ CatInit
  /\ NvidiaInit({NvidiaDefaultMap}, {NvidiaDefaultVoice})
  /\ LLMInit
  /\ ConvInit

NextLLM ==
  \/ LLMGenerate
  \/ LLMWake
  \/ LLMFirstResponse
  \/ LLMSecondResponse
  \/ LLMTimeout
  \/ LLMProviderError
  \/ LLMCancelled
  \/ LLMReturn

SpecLLM == InitLLM /\ [][NextLLM]_vars

\* MyLLMService.generate on a list that another task of the caller changes
\* while generate sleeps
NextLLMShared ==
  \/ LLMGenerate
  \/ LLMWake
  \/ LLMFirstResponse
  \/ LLMSecondResponse
  \/ LLMTimeout
  \/ LLMProviderError
  \/ LLMCancelled
  \/ LLMReturn
  \/ LLMListChanged

SpecLLMShared == InitLLM /\ [][NextLLMShared]_vars

\* the conversation driver
InitDriver ==
  /\ AWSPollyDefault
  /\ LangInit
  /\ CatInit
  /\ NvidiaInit({NvidiaDefaultMap}, {NvidiaDefaultVoice})
  /\ LLMInit
  /\ ConvInit

NextDriver ==
  \/ DriverUser
  \/ DriverGenerate
  \/ DriverWake
  \/ DriverFirstResponse
  \/ DriverSecondResponse
  \/ DriverTimeout
  \/ DriverProviderError
  \/ DriverReply
  \/ DriverFails
  \/ DriverCheck
  \/ DriverSummary
  \/ DriverSummaryFails

SpecDriver == InitDriver /\ [][NextDriver]_vars

\* check_conversation_length on its own
InitCompaction ==
  /\ AWSPollyDefault
  /\ LangInit
  /\ CatInit
  /\ NvidiaInit({NvidiaDefaultMap}, {NvidiaDefaultVoice})
  /\ LLMInit
  /\ CompactionInit

NextCompaction ==
  \/ CheckConversationLength
  \/ CheckSummary
  \/ CheckSummaryFails

SpecCompaction == InitCompaction /\ [][NextCompaction]_vars

\* check_conversation_length in both of its uses: inside the driver, and
\* called on a conversation of its own
InitConversation == InitDriver \/ InitCompaction

NextConversation ==
  \/ DriverUser
  \/ DriverGenerate
  \/ DriverWake
  \/ DriverFirstResponse
  \/ DriverSecondResponse
  \/ DriverTimeout
  \/ DriverProviderError
  \/ DriverReply
  \/ DriverFails
  \/ DriverCheck
  \/ DriverSummary
  \/ DriverSummaryFails
  \/ CheckConversationLength
  \/ CheckSummary
  \/ CheckSummaryFails

SpecConversation == InitConversation /\ [][NextConversation]_vars

(***************************************************************************)
(* Properties                                                              *)
(***************************************************************************)
\* positions of the frames of a given type
FramesOfType(frames, type) == {i \in 1..Len(frames) : frames[i].type = type}

\* payloads of the audio frames, in emission order
RECURSIVE AudioPayloads(_)
AudioPayloads(frames) ==
  IF frames = <<>> THEN <<>>
  ELSE IF Head(frames).type = "TTSAudioRawFrame"
       THEN <<Head(frames).audio>> \o AudioPayloads(Tail(frames))
       ELSE AudioPayloads(Tail(frames))

\* concatenation of a sequence of byte strings
RECURSIVE Concat(_)
Concat(parts) == IF parts = <<>> THEN <<>> ELSE Head(parts) \o Concat(Tail(parts))

\* a run of AWSPollyTTSService.run_tts whose Polly request succeeded has ended
PollySucceeded == aws_pc = "done" /\ aws_outcome = "ok"

\* C1: when the Polly request succeeds, run_tts emits exactly one
\* TTSStartedFrame first, then only TTSAudioRawFrames, then exactly one
\* TTSStoppedFrame, and nothing after it.
C1_StartAudioStop ==
  PollySucceeded =>
    /\ Len(aws_frames) >= 2
    /\ FramesOfType(aws_frames, "TTSStartedFrame") = {1}
    /\ FramesOfType(aws_frames, "TTSStoppedFrame") = {Len(aws_frames)}
    /\ FramesOfType(aws_frames, "TTSAudioRawFrame") = 2..(Len(aws_frames) - 1)

\* C2: the payloads of the audio frames, concatenated in emission order, are
\* the resampled audio buffer; each payload is non-empty and at most
\* chunk_size bytes long, every payload but the last is exactly chunk_size
\* bytes long, and an empty buffer yields no audio frame.
C2_ChunksPartitionAudio ==
  PollySucceeded =>
    LET payloads == AudioPayloads(aws_frames) IN
      /\ Concat(payloads) = aws_audio
      /\ \A k \in 1..Len(payloads) :
           /\ Len(payloads[k]) >= 1
           /\ Len(payloads[k]) <= aws_chunk_size
           /\ k < Len(payloads) => Len(payloads[k]) = aws_chunk_size
      /\ aws_audio = <<>> => payloads = <<>>

\* a buffer cut into several chunks, the last one short
C2_Witness ==
  /\ PollySucceeded
  /\ aws_chunk_size >= 2
  /\ Len(aws_audio) > aws_chunk_size
  /\ Len(aws_audio) % aws_chunk_size # 0

\* a run of AWSPollyTTSService.run_tts whose Polly call raised BotoCoreError
\* or ClientError has ended
PollyBotoFailed == aws_pc = "done" /\ aws_outcome \in {"BotoCoreError", "ClientError"}

\* C3: when the Polly call raises BotoCoreError or ClientError, run_tts emits
\* an ErrorFrame and then a TTSStoppedFrame, no TTSAudioRawFrame, and ends
\* without raising.
C3_BotoErrorFrames ==
  /\ aws_outcome \in {"BotoCoreError", "ClientError"} =>
       FramesOfType(aws_frames, "TTSAudioRawFrame") = {}
  /\ PollyBotoFailed =>
       /\ \E i \in FramesOfType(aws_frames, "ErrorFrame") :
            \E j \in FramesOfType(aws_frames, "TTSStoppedFrame") : i < j
       /\ aws_frames[Len(aws_frames)].type = "TTSStoppedFrame"
       /\ aws_raised = None

C3_Witness == PollyBotoFailed /\ aws_outcome = "ClientError" /\ Len(aws_frames) = 2

\* a run of NvidiaTTSService.run_tts that passed its assertions has ended
NvidiaRan == nv_pc = "done" /\ nv_service # None /\ nv_config # None

\* C4: after start(), when synthesis succeeds, run_tts emits TTSStartedFrame
\* first, then one TTSAudioRawFrame per provider response, in the provider's
\* order, then TTSStoppedFrame last.
C4_NvidiaFramesFollowResponses ==
  (NvidiaRan /\ nv_stream.final = "end") =>
    /\ Len(nv_frames) = Len(nv_stream.responses) + 2
    /\ nv_frames[1] = TTSStartedFrame
    /\ nv_frames[Len(nv_frames)] = TTSStoppedFrame
    /\ \A k \in 1..Len(nv_stream.responses) :
         /\ nv_frames[k + 1].type = "TTSAudioRawFrame"
         /\ nv_frames[k + 1].audio = nv_stream.responses[k]

\* several responses, one of them without audio
C4_Witness ==
  /\ NvidiaRan
  /\ nv_stream.final = "end"
  /\ Len(nv_stream.responses) >= 3
  /\ nv_stream.responses[1] # nv_stream.responses[2]
  /\ \E k \in 1..Len(nv_stream.responses) : nv_stream.responses[k] = <<>>

\* C5: when waiting for the audio response raises asyncio.TimeoutError,
\* run_tts emits an ErrorFrame and ends without raising.
C5_TimeoutErrorFrame ==
  (NvidiaRan /\ nv_stream.final = "TimeoutError") =>
    /\ FramesOfType(nv_frames, "ErrorFrame") # {}
    /\ nv_raised = None

\* C6: set_model never changes the service: after any call set_model(m) the
\* model name and the function id are the ones fixed at construction.
C6_SetModelChangesNothing ==
  nv_set_model_arg # None =>
    /\ nv_model_name = nv_ctor.model_function_map.model_name
    /\ nv_function_id = nv_ctor.model_function_map.function_id

\* set_model was called with a model name other than the constructed one
C6_Witness ==
  /\ nv_set_model_arg # None
  /\ nv_set_model_arg # nv_ctor.model_function_map.model_name

\* the SSML of the request the current run_tts call has built
PollySsml == aws_request.Text

\* an SSML string has a token opening an attribute of the given name
HasAttr(ssml, name) == \E i \in 1..Len(ssml) : ssml[i] = name \o "='"

\* C7: the SSML has a pitch attribute if and only if the engine setting is
\* 'standard' and a pitch is configured; for every other engine value,
\* None included, a configured pitch is left out.
C7_PitchOnlyForStandard ==
  aws_pc # "idle" =>
    (HasAttr(PollySsml, "pitch")
       <=> (aws_settings.engine = "standard" /\ Truthy(aws_settings.pitch)))

\* a pitch is configured for the neural engine
C7_Witness ==
  /\ aws_pc # "idle"
  /\ aws_settings.engine = "neural"
  /\ aws_settings.pitch = "high"
  /\ aws_settings.rate = "fast"
  /\ HasAttr(PollySsml, "rate")

\* at least one prosody attribute applies under the settings
ProsodyApplies(settings) ==
  \/ settings.engine = "standard" /\ Truthy(settings.pitch)
  \/ Truthy(settings.rate)
  \/ Truthy(settings.volume)

\* the element a token opens or closes, None for any other token
OpenedBy(token) ==
  CASE token = "<speak>" -> "speak"
    [] token = "<lang xml:lang='" -> "lang"
    [] token = "<prosody " -> "prosody"
    [] OTHER -> None

ClosedBy(token) ==
  CASE token = "</speak>" -> "speak"
    [] token = "</lang>" -> "lang"
    [] token = "</prosody>" -> "prosody"
    [] OTHER -> None

\* every closing tag closes the element opened last, and nothing stays open
RECURSIVE WellNested(_, _)
WellNested(tokens, open) ==
  IF tokens = <<>> THEN open = <<>>
  ELSE IF OpenedBy(Head(tokens)) # None
       THEN WellNested(Tail(tokens), <<OpenedBy(Head(tokens))>> \o open)
  ELSE IF ClosedBy(Head(tokens)) # None
       THEN /\ open # <<>>
            /\ Head(open) = ClosedBy(Head(tokens))
            /\ WellNested(Tail(tokens), Tail(open))
  ELSE WellNested(Tail(tokens), open)

\* positions of a token in an SSML string
TokenAt(ssml, token) == {i \in 1..Len(ssml) : ssml[i] = token}

\* C8: _construct_ssml returns <speak>, then <lang xml:lang='L'> with L the
\* configured language code, then the text, then </lang></speak>; the text
\* is wrapped in one <prosody ...>...</prosody> element if and only if at
\* least one prosody attribute applies; tags close in reverse order of
\* opening.
C8_SsmlShape ==
  aws_pc # "idle" =>
    LET s == PollySsml
        n == Len(PollySsml)
        wrapped == ProsodyApplies(aws_settings)
        t == IF wrapped THEN n - 3 ELSE n - 2
    IN
      /\ n >= 7
      /\ SubSeq(s, 1, 4) = <<"<speak>", "<lang xml:lang='", Str(aws_settings.language), "'>">>
      /\ SubSeq(s, n - 1, n) = <<"</lang>", "</speak>">>
      /\ s[t] = aws_text
      /\ IF wrapped
         THEN /\ TokenAt(s, "<prosody ") = {5}
              /\ TokenAt(s, "</prosody>") = {t + 1}
              /\ s[t - 1] = ">"
         ELSE /\ TokenAt(s, "<prosody ") = {}
              /\ TokenAt(s, "</prosody>") = {}
              /\ t = 5
      /\ WellNested(s, <<>>)

\* the text wrapped in a prosody element with all three attributes
C8_Witness ==
  /\ aws_pc # "idle"
  /\ aws_settings.engine = "standard"
  /\ Truthy(aws_settings.pitch)
  /\ Truthy(aws_settings.rate)
  /\ Truthy(aws_settings.volume)
  /\ HasAttr(PollySsml, "volume")
  /\ aws_text = "a<b"

\* C10: in the catalog get_voices returns, of AWSPollyTTSService and of
\* NvidiaTTSService, no two entries have the same voice_id.
C10_VoiceIdsUnique ==
  \A i, j \in 1..Len(voices) :
    voices[i].voice_id = voices[j].voice_id => i = j

\* the keys of an entry of a returned catalog
VoiceKeys == {"name", "voice_id", "description", "gender", "language", "sample_url", "accent"}

\* a get_voices call has returned
VoicesReturned == cat_pc \in {"aws_done", "nvidia_done"}

\* the raw catalog of the get_voices call that is running or has returned
RawOfCall == IF cat_pc \in {"aws", "aws_done"} THEN AWSPollyRawVoices ELSE NvidiaRawVoices

\* C11: get_voices returns exactly one entry per raw catalog entry, in
\* catalog order, each with the keys name, voice_id, description, gender,
\* language, sample_url and accent; name, voice_id, gender and language are
\* copied unchanged, and an empty description, preview_url or accent is
\* reported as None.
C11_EntriesMirrorRaw ==
  cat_pc # "idle" =>
    /\ VoicesReturned => Len(voices) = Len(RawOfCall)
    /\ Len(voices) <= Len(RawOfCall)
    /\ \A i \in 1..Len(voices) :
         /\ DOMAIN voices[i] = VoiceKeys
         /\ voices[i].name = RawOfCall[i].name
         /\ voices[i].voice_id = RawOfCall[i].voice_id
         /\ voices[i].gender = RawOfCall[i].gender
         /\ voices[i].language = RawOfCall[i].language
         /\ voices[i].description =
              (IF RawOfCall[i].description = "" THEN None ELSE RawOfCall[i].description)
         /\ voices[i].sample_url =
              (IF RawOfCall[i].preview_url = "" THEN None ELSE RawOfCall[i].preview_url)
         /\ voices[i].accent =
              (IF RawOfCall[i].accent = "" THEN None ELSE RawOfCall[i].accent)

\* the AWS catalog has been returned; it has entries with and without accent
C11_Witness ==
  /\ cat_pc = "aws_done"
  /\ Len(voices) = Len(AWSPollyRawVoices)
  /\ \E i \in 1..Len(voices) : voices[i].accent = None
  /\ \E i \in 1..Len(voices) : voices[i].accent # None /\ voices[i].description = None

\* C15: the SSML contains a <prosody> element only when the engine setting
\* is 'standard' or 'neural'.
C15_ProsodyOnlyStandardNeural ==
  aws_pc # "idle" =>
    (TokenAt(PollySsml, "<prosody ") # {} => aws_settings.engine \in {"standard", "neural"})

\* the keys run_tts always sends
AlwaysSent == {"Text", "TextType", "OutputFormat", "VoiceId", "SampleRate"}

\* C16: the parameters sent to synthesize_speech never contain a key whose
\* value is None: Text, TextType='ssml', OutputFormat='pcm', VoiceId and
\* SampleRate='16000' are always sent, Engine is sent if and only if an
\* engine is configured, LexiconNames if and only if lexicon names are
\* configured.
C16_RequestHasNoNone ==
  aws_pc # "idle" =>
    /\ \A k \in DOMAIN aws_request : aws_request[k] # NoneFor(k)
    /\ AlwaysSent \subseteq DOMAIN aws_request
    /\ DOMAIN aws_request \subseteq AlwaysSent \cup {"Engine", "LexiconNames"}
    /\ aws_request.Text = construct_ssml(aws_settings, aws_text)
    /\ aws_request.TextType = "ssml"
    /\ aws_request.OutputFormat = "pcm"
    /\ aws_request.VoiceId = aws_voice_id
    /\ aws_request.SampleRate = "16000"
    /\ "Engine" \in DOMAIN aws_request <=> aws_settings.engine # None
    /\ "Engine" \in DOMAIN aws_request => aws_request.Engine = aws_settings.engine
    /\ "LexiconNames" \in DOMAIN aws_request <=> aws_settings.lexicon_names # NoneList
    /\ "LexiconNames" \in DOMAIN aws_request =>
         aws_request.LexiconNames = aws_settings.lexicon_names

\* a request built without engine and without lexicon names
C16_Witness ==
  /\ aws_pc # "idle"
  /\ aws_settings.engine = None
  /\ aws_settings.lexicon_names = NoneList
  /\ DOMAIN aws_request = AlwaysSent

\* C17: when the Polly response contains no AudioStream, run_tts does not
\* raise: it emits no TTSAudioRawFrame and ends with a TTSStoppedFrame.
C17_NoStreamEndsQuietly ==
  (aws_pc = "done" /\ aws_outcome = "no_stream") =>
    /\ aws_raised = None
    /\ FramesOfType(aws_frames, "TTSAudioRawFrame") = {}
    /\ aws_frames # <<>>
    /\ aws_frames[Len(aws_frames)].type = "TTSStoppedFrame"

\* a run of NvidiaTTSService.run_tts has ended on a failed assertion: the
\* service client or the synthesis config was missing
NvidiaRanUnstarted == nv_pc = "done" /\ (nv_service = None \/ nv_config = None)

\* C18: run_tts called before start() has created the service client and the
\* synthesis config makes no synthesis request and emits exactly one
\* ErrorFrame and no TTSStartedFrame, TTSAudioRawFrame or TTSStoppedFrame.
C18_UnstartedRunOnlyErrorFrame ==
  /\ (nv_service = None \/ nv_config = None) => ~nv_requested
  /\ NvidiaRanUnstarted =>
       /\ Len(nv_frames) = 1
       /\ nv_frames[1].type = "ErrorFrame"
       /\ nv_raised = None

\* run_tts has run on a service that was never started
C18_Witness == NvidiaRanUnstarted /\ nv_starts = 0 /\ nv_frames # <<>>

\* C19: whenever run_tts has emitted a TTSStartedFrame, it emits a
\* TTSStoppedFrame later in the same run, also when the provider stream
\* fails after the start frame or after some audio frames.
C19_StartedThenStopped ==
  nv_pc = "done" =>
    \A i \in FramesOfType(nv_frames, "TTSStartedFrame") :
      \E j \in FramesOfType(nv_frames, "TTSStoppedFrame") : i < j

\* C20: across any sequence of start() calls the Riva service client is
\* created exactly once: _initialize_client leaves an existing client
\* unchanged, and after the first start() the client is never None.
C20_ClientCreatedOnce ==
  /\ nv_clients_created <= 1
  /\ nv_starts = 0 => nv_service = None /\ nv_clients_created = 0
  /\ nv_starts >= 1 =>
       /\ nv_clients_created = 1
       /\ nv_service = "SpeechSynthesisService#1"

\* start() has been called more than once
C20_Witness == nv_starts >= 2 /\ nv_service # None /\ nv_clients_created = 1


\* generate has ended on an empty message list
GenerateOnEmptyEnded == llm_pc = "done" /\ llm_arg = <<>>

\* C12: MyLLMService.generate called with an empty message list raises an
\* error that reports 'No messages provided' and issues no chat-completion
\* request.
C12_EmptyListReported ==
  GenerateOnEmptyEnded =>
    /\ llm_raised # NoError
    /\ llm_raised.message = "No messages provided"
    /\ llm_requests = <<>>

\* C13: in the conversation driver, where each turn appends a user message,
\* calls generate, appends the assistant reply and then applies
\* check_conversation_length when the conversation has more than 10
\* messages, the conversation has at most 10 messages after every turn.
C13_AtMostTenAfterTurn ==
  conv_pc = "user" => Len(conversation) <= CompactionThreshold

\* a turn has just ended with a compaction of a conversation that had grown
\* by a tool-call turn to more than 10 messages
C13_Witness ==
  /\ conv_pc = "user"
  /\ conv_result.called
  /\ conversation = conv_result.value
  /\ Len(conv_input) > CompactionThreshold + 1
  /\ \E i \in 1..Len(conversation) : conversation[i].role = "tool"

\* s is t with some elements left out
RECURSIVE IsSubsequence(_, _)
IsSubsequence(s, t) ==
  IF s = <<>> THEN TRUE
  ELSE IF t = <<>> THEN FALSE
  ELSE IF Head(s) = Head(t) THEN IsSubsequence(Tail(s), Tail(t))
  ELSE IsSubsequence(s, Tail(t))

IsPlainSystem(m) == m.role = "system" /\ ~startswith(m.content, SUMMARY_TAG)

\* check_conversation_length has returned from a call with more than 10
\* messages
CompactedLong == conv_result.called /\ Len(conv_input) > CompactionThreshold

\* C14: for a conversation of more than 10 messages,
\* check_conversation_length returns a list made of the kept non-summary
\* system messages first, then one new system message tagged [SUMMARY], then
\* the last five non-system messages of the input, verbatim and in their
\* original order.
C14_CompactedShape ==
  CompactedLong =>
    /\ ~conv_result.none
    /\ LET result == conv_result.value
           non_system == SelectSeq(conv_input, IsNonSystem)
           tail == [i \in 1..KeptMessages |->
                      non_system[Len(non_system) - KeptMessages + i]]
           k == Len(result) - KeptMessages
       IN /\ k >= 1
          /\ \A i \in 1..(k - 1) : IsPlainSystem(result[i])
          /\ IsSubsequence(SubSeq(result, 1, k - 1), SelectSeq(conv_input, IsPlainSystem))
          /\ result[k] = Msg("system", <<SUMMARY_TAG, "\n">> \o StrContent(conv_summary))
          /\ result[k] \notin {conv_input[i] : i \in 1..Len(conv_input)}
          /\ SubSeq(result, k + 1, Len(result)) = tail

\* a conversation with plain system messages, an earlier summary and more
\* than five other messages has been compacted
C14_Witness ==
  /\ CompactedLong
  /\ Len(conv_result.value) >= KeptMessages + 3
  /\ \E i \in 1..Len(conv_input) : startswith(conv_input[i].content, SUMMARY_TAG)
  /\ Len(SelectSeq(conv_input, IsNonSystem)) > KeptMessages

\* generate has ended on a non-empty list whose last message has content "",
\* and the caller did not cancel it during the sleep
GenerateOnEmptyContentEnded ==
  /\ llm_pc = "done"
  /\ llm_arg # <<>>
  /\ llm_arg[Len(llm_arg)].content = <<>>
  /\ llm_raised.type # "CancelledError"

\* C21: MyLLMService.generate called with a non-empty message list whose
\* last message has empty content returns LLMResponse(text='', raw=None) and
\* issues no chat-completion request (a call the caller cancels while it
\* sleeps returns nothing and sends nothing either).
C21_EmptyContentShortCut ==
  /\ GenerateOnEmptyContentEnded =>
       /\ llm_raised = NoError
       /\ llm_result = LLMResponse(<<>>, NoCompletion)
  /\ (llm_arg # <<>> /\ llm_arg[Len(llm_arg)].content = <<>>) =>
       /\ llm_requests = <<>>
       /\ llm_responses = <<>>

\* such a call has ended, on a list that holds earlier messages too
C21_Witness == GenerateOnEmptyContentEnded /\ Len(llm_arg) > 1

\* C22: one call of MyLLMService.generate issues at most two
\* chat-completion requests: the first always carries the tool definitions;
\* a second one, without tool definitions, is issued if and only if the
\* first response contains a tool call; the returned text is the content of
\* the last response received.
C22_RequestCycle ==
  /\ Len(llm_requests) <= 2
  /\ Len(llm_responses) <= Len(llm_requests)
  /\ llm_requests # <<>> =>
       /\ llm_requests[1].tools = create_tools
       /\ llm_requests[1].tools # <<>>
  /\ Len(llm_requests) = 2 <=>
       (llm_responses # <<>> /\ llm_responses[1].tool_calls # <<>>)
  /\ Len(llm_requests) = 2 =>
       /\ llm_requests[2].tools = <<>>
       /\ llm_requests[2].tool_choice = None
  /\ (llm_pc = "done" /\ llm_raised = NoError /\ llm_requests # <<>>) =>
       /\ Len(llm_responses) = Len(llm_requests)
       /\ llm_result.text = llm_responses[Len(llm_responses)].content
       /\ llm_result.raw = llm_responses[Len(llm_responses)]

\* a call that went through the tool-call branch has returned
C22_Witness ==
  /\ llm_pc = "done"
  /\ llm_raised = NoError
  /\ Len(llm_requests) = 2
  /\ Len(llm_responses) = 2
  /\ llm_result.text = <<"final">>

\* generate has issued its second request
SecondRequestIssued == Len(llm_requests) = 2

\* C23: whenever MyLLMService.generate issues its second request, every tool
\* call listed in the assistant message it appended is answered by a tool
\* message with the same tool_call_id placed after that assistant message,
\* for any number of tool calls in the first response.
C23_EveryToolCallAnswered ==
  SecondRequestIssued =>
    LET messages == llm_requests[2].messages
    IN \A a \in 1..Len(messages) :
         \A c \in 1..Len(messages[a].tool_calls) :
           \E t \in (a + 1)..Len(messages) :
             /\ messages[t].role = "tool"
             /\ messages[t].tool_call_id = messages[a].tool_calls[c].id

\* C24: MyLLMService.generate leaves the message list passed by the caller
\* unchanged: after it returns, the caller's list holds the same messages in
\* the same order as before the call, whether or not the model requested a
\* tool call.
C24_CallerListUnchanged ==
  (llm_pc = "done" /\ llm_raised = NoError) => llm_messages = llm_arg

\* a system message whose content starts with [SUMMARY]
IsSummaryMessage(m) ==
  m.role = "system" /\ m.content # <<>> /\ m.content[1] = SUMMARY_TAG

SummaryCount(conv) == Cardinality({i \in 1..Len(conv) : IsSummaryMessage(conv[i])})

\* C25: the list returned by check_conversation_length for a conversation of
\* more than 10 messages contains exactly one system message whose content
\* starts with [SUMMARY], whatever number of [SUMMARY] messages the input
\* contains; after any number of compactions the conversation of the driver
\* never holds two summaries.
C25_OneSummary ==
  /\ CompactedLong =>
       /\ ~conv_result.none
       /\ SummaryCount(conv_result.value) = 1
  /\ conv_pc \in {"user", "generate", "generating", "check", "compacting", "failed"} =>
       /\ SummaryCount(conversation) <= 1
       /\ conv_result.called => SummaryCount(conversation) = 1

\* a conversation holding several summaries has been compacted
C25_Witness ==
  /\ CompactedLong
  /\ conv_pc = "returned"
  /\ SummaryCount(conv_input) >= 2
  /\ SummaryCount(conv_result.value) = 1

\* number of places of a token sequence that hold tok
Occurrences(tokens, tok) == Cardinality({j \in 1..Len(tokens) : tokens[j] = tok})

\* the place of a token that occurs once
PlaceOf(tokens, tok) == CHOOSE j \in 1..Len(tokens) : tokens[j] = tok

\* C26: in check_conversation_length, for a conversation of more than 10
\* messages, the non-system messages are split without loss or duplication:
\* the last five are kept in the result and all earlier ones, in their
\* original order, are included in the text sent to summarise_text; no
\* non-system message is in both parts or in neither.
C26_SplitWithoutLoss ==
  (CompactedLong /\ conv_pc = "returned") =>
    LET non_system == SelectSeq(conv_input, IsNonSystem)
        n == Len(non_system)
        result == conv_result.value
        kept(p) == Cardinality({j \in 1..Len(result) : result[j] = non_system[p]})
        sent(p) == Occurrences(conv_sent, non_system[p].content[1])
    IN /\ \A p \in 1..n :
            IF p > n - KeptMessages
            THEN kept(p) = 1 /\ sent(p) = 0
            ELSE /\ kept(p) = 0
                 /\ sent(p) = 1
                 /\ PlaceOf(conv_sent, non_system[p].content[1]) > 2
                 /\ conv_sent[PlaceOf(conv_sent, non_system[p].content[1]) - 2]
                      = non_system[p].role
       /\ \A p, q \in 1..(n - KeptMessages) :
            p < q => PlaceOf(conv_sent, non_system[p].content[1])
                       < PlaceOf(conv_sent, non_system[q].content[1])

\* a conversation with several old messages and an earlier summary has been
\* compacted
C26_Witness ==
  /\ CompactedLong
  /\ conv_pc = "returned"
  /\ Len(SelectSeq(conv_input, IsNonSystem)) >= KeptMessages + 3
  /\ Len(conv_sent) > 0
  /\ conv_sent[1] = "Summary so far:\n"

\* C27: whenever the conversation given to check_conversation_length has
\* more than 10 messages and contains a system message tagged [SUMMARY], the
\* text sent to summarise_text includes that existing summary.
\* (of several summaries in the input, one carried into the text is enough)
C27_ExistingSummaryCarried ==
  (CompactedLong /\ conv_pc = "returned" /\ SummaryCount(conv_input) >= 1) =>
    \E i \in 1..Len(conv_input) :
      /\ IsSummaryMessage(conv_input[i])
      /\ Occurrences(conv_sent, "Summary so far:\n") = 1
      /\ \A j \in 3..Len(conv_input[i].content) :
           Occurrences(conv_sent, conv_input[i].content[j]) >= 1

\* C28: check_conversation_length keeps every system message of the input
\* that is not tagged [SUMMARY]: each of them appears in the result, in the
\* original order, however many system messages the input contains.
C28_PlainSystemKept ==
  (CompactedLong /\ conv_pc = "returned") =>
    SelectSeq(conv_result.value, IsPlainSystem) = SelectSeq(conv_input, IsPlainSystem)

\* C29: check_conversation_length applied to a conversation of 10 or fewer
\* messages returns that conversation unchanged.
C29_ShortReturnedUnchanged ==
  (conv_result.called /\ conv_pc = "returned"
     /\ Len(conv_input) <= CompactionThreshold) =>
    /\ ~conv_result.none
    /\ conv_result.value = conv_input

\* C30: the default voice_id of NvidiaTTSService is the voice_id of an entry
\* of the catalog returned by NvidiaTTSService.get_voices.
C30_DefaultVoiceInCatalog ==
  (cat_pc = "nvidia_done" /\ nv_ctor.voice_id = NvidiaDefaultVoice) =>
    \E i \in 1..Len(voices) : voices[i].voice_id = nv_voice_id
====
